---- MODULE Spec2Model ----
(***************************************************************************)
(* Verification model of the distributed code generator                    *)
(* (triton::codegen::generator, src/unnamed/part_001).                     *)
(*                                                                         *)
(* The module holds several state machines over disjoint groups of         *)
(* variables:                                                              *)
(*   - SpecLoop : shared-buffer phis (visit_layout_shared,                 *)
(*                finalize_shared_layout) and the loop that runs them;     *)
(*   - SpecIdx  : visit_layout_scanline and init_idx;                      *)
(*   - SpecLd   : visit_load_inst and a lane running its fragments;        *)
(*   - SpecRed  : visit_reduce_inst and a thread-block running its stream; *)
(*   - SpecCvt  : visit_layout_convert and a thread-block running it;      *)
(*   - SpecTrav : visit_function, visit_value and the value table;         *)
(*   - SpecFp8  : the 8-bit float branch of visit_cast_inst and the        *)
(*                conversions it calls;                                    *)
(*   - SpecCp   : visit_masked_load_async_inst, visit_copy_to_shared_inst  *)
(*                and visit_async_wait_inst;                               *)
(*   - SpecAtom : the scalar atomics and the lanes that run them;          *)
(*   - SpecXw   : the cross-warp step of visit_reduce1d_inst;              *)
(*   - SpecCfg  : the target blocks, the regions split off them and the    *)
(*                branches of visit_function.                              *)
(* Every specification fixes the variables of the other groups to Idle.    *)
(***************************************************************************)
EXTENDS Integers, Naturals, Sequences, FiniteSets, TLC

VARIABLES
  \* shared-buffer lifecycle
  shared,       \* the analysis::shared_layout under lowering
  sphi,         \* the phis of the layout: name -> (incoming block -> value expression)
  lpc,          \* position of the generator / of the generated loop
  run,          \* values of the phis in the current loop iteration
  \* index materializer
  num_warps,    \* num_warps_
  layout,       \* the analysis::scanline_layout of the value
  axes,         \* axes_, evaluated for every lane: lane -> dim -> distributed_axis
  idxs,         \* idxs_[v], evaluated for every lane: lane -> sequence of index tuples
  ords,         \* ords_[v]
  ipc,          \* position of the generator
  \* load lowering
  ld,           \* the ir::load_inst and what the analyses say about it
  ld_asm,       \* the inline fragments emitted, one per vector group
  ld_vals,      \* vals_[x]: index -> <<fragment, word, element>>
  ld_res,       \* the values one lane obtains when the fragments run
  ld_pc,        \* position of the generator / of the lane
  \* shared-memory streams
  kern,         \* the instruction under lowering and the launch it is lowered for
  prog,         \* the instruction stream emitted
  outs,         \* vals_[x]: result index -> register
  wpc,          \* warp -> position in the stream
  waiting,      \* the warps that wait at a barrier
  regs,         \* warp -> register -> lane -> value
  smem,         \* shared memory: slot -> value
  ldset,        \* <<slot, lane>> loaded since the last barrier
  stset,        \* <<slot, lane>> stored since the last barrier
  epc,          \* position of the generator / of the launch
  \* traversal driver and value table
  fn,           \* the ir::function under lowering
  tpc,          \* position of the generator
  bcur,         \* visit_function: the basic block at hand
  icur,         \* visit_basic_block: the instruction at hand (0: block not entered)
  seen_,        \* seen_
  vals_,        \* vals_: value -> index tuple -> llvm value
  idxs_,        \* idxs_: value -> sequence of index tuples
  shmems_,      \* shmems_: value -> shared-memory pointer
  shoffs_,      \* shoffs_: value -> shared-memory offset
  bbs_,         \* bbs_: ir::basic_block -> llvm::BasicBlock
  ip,           \* the insertion point of builder_
  code,         \* llvm::BasicBlock -> instructions emitted
  phi_incs,     \* phi value -> index tuple -> incoming <<value, block>> added
  shinc,        \* incoming values added to the phis of the double buffer
  stack,        \* the visit_value calls in progress
  calls,        \* value -> number of times its handler was invoked
  \* 8-bit float casts
  cast,         \* the ir::cast_inst, its layout and the entries of its operand
  cast_vals,    \* vals_[x]: position in x_idxs -> llvm value
  cast_back,    \* the 32-bit floats fp8x4_to_fp32x4 gives for the groups written
  cast_pc,      \* position of the generator
  \* copies to shared memory
  cp,           \* the instructions to lower, their layouts and the swizzle of the buffer
  cp_pos,       \* number of instructions lowered
  cp_first,     \* instructions emitted before the terminator of the entry block
  cp_code,      \* instructions emitted in the current block
  \* scalar atomics
  atom,         \* the ir::atomic_rmw_inst or atomic_cas_inst and its pointer operand
  atom_code,    \* the instructions emitted
  atom_pc,      \* position of the generator
  apos,         \* lane -> position in atom_code
  aregs,        \* lane -> registers (old: result of the atomic, ret: vals_[atom])
  cell,         \* global memory at the address of the pointer operand
  aslot,        \* the shared-memory word of layouts_->tmp(atom)
  atom_log,     \* lanes that ran the atomic, values stored to the slot
  \* cross-warp step of the 1-D reduction
  xw_nw,        \* num_warps_
  xw_mem,       \* scratch slot -> bag of warp partials
  xw_ret,       \* lane of warp 0 -> bag held in ret
  xw_i,         \* distance of the next shuffle
  xw_pc,        \* position of the thread-block
  \* control flow
  cfg_fn,       \* the ir::function under lowering
  cfg_blocks,   \* target block -> its instructions
  cfg_bbs,      \* bbs_
  cfg_ip,       \* insertion point of builder_
  cfg_pc,       \* position of the generator
  cfg_phis      \* incoming edges added to the target phis

loopVars == <<shared, sphi, lpc, run>>
idxVars == <<num_warps, layout, axes, idxs, ords, ipc>>
ldVars == <<ld, ld_asm, ld_vals, ld_res, ld_pc>>
execVars == <<kern, prog, outs, wpc, waiting, regs, smem, ldset, stset, epc>>
travVars == <<fn, tpc, bcur, icur, seen_, vals_, idxs_, shmems_, shoffs_, bbs_, ip,
              code, phi_incs, shinc, stack, calls>>
fp8Vars == <<cast, cast_vals, cast_back, cast_pc>>
cpVars == <<cp, cp_pos, cp_first, cp_code>>
atomVars == <<atom, atom_code, atom_pc, apos, aregs, cell, aslot, atom_log>>
xwVars == <<xw_nw, xw_mem, xw_ret, xw_i, xw_pc>>
cfgVars == <<cfg_fn, cfg_blocks, cfg_bbs, cfg_ip, cfg_pc, cfg_phis>>
vars == <<loopVars, idxVars, ldVars, execVars, travVars, fp8Vars, cpVars, atomVars, xwVars, cfgVars>>

\* what an action of one group leaves alone
notLoop == <<idxVars, ldVars, execVars, travVars, fp8Vars, cpVars, atomVars, xwVars, cfgVars>>
notIdx == <<loopVars, ldVars, execVars, travVars, fp8Vars, cpVars, atomVars, xwVars, cfgVars>>
notLd == <<loopVars, idxVars, execVars, travVars, fp8Vars, cpVars, atomVars, xwVars, cfgVars>>
notExec == <<loopVars, idxVars, ldVars, travVars, fp8Vars, cpVars, atomVars, xwVars, cfgVars>>
notTrav == <<loopVars, idxVars, ldVars, execVars, fp8Vars, cpVars, atomVars, xwVars, cfgVars>>
notFp8 == <<loopVars, idxVars, ldVars, execVars, travVars, cpVars, atomVars, xwVars, cfgVars>>
notCp == <<loopVars, idxVars, ldVars, execVars, travVars, fp8Vars, atomVars, xwVars, cfgVars>>
notAtom == <<loopVars, idxVars, ldVars, execVars, travVars, fp8Vars, cpVars, xwVars, cfgVars>>
notXw == <<loopVars, idxVars, ldVars, execVars, travVars, fp8Vars, cpVars, atomVars, cfgVars>>
notCfg == <<loopVars, idxVars, ldVars, execVars, travVars, fp8Vars, cpVars, atomVars, xwVars>>

Idle == "idle"

Min(a, b) == IF a < b THEN a ELSE b
Max(a, b) == IF a > b THEN a ELSE b

(***************************************************************************)
(* Shared-buffer lifecycle: N-stage and double buffering                   *)
(***************************************************************************)
\* bounds of the loop model
MaxStages == 5
MaxIter == 11
MaxStride == 3

\* the two predecessors of the loop header: phi->get_incoming_block(0) / (1)
Header == "header"
Loop == "loop"

\* the values finalize_shared_layout expects to be PHINodes
NStagePhis == {"read_smem_idx", "write_smem_idx", "shared_ptr", "shared_next_ptr"}
DoublePhis == {"shared_ptr", "shared_off"}

\* element size of the buffers of the model, bytes; not_phi names the value
\* held by the tables of the generator that is no PHINode, if there is one
SharedLayouts ==
  [kind : {"N"}, num_stages : 1..MaxStages, per_stage_elements : {4},
   size : {0}, num_bytes : {4}, offset : {0, 64}, latch_first : {FALSE},
   not_phi : {"none"} \cup NStagePhis]
  \cup
  [kind : {"double"}, num_stages : {2}, per_stage_elements : {0},
   size : {2 * 4 * s : s \in 1..MaxStride}, num_bytes : {4}, offset : {0, 64},
   latch_first : BOOLEAN, not_phi : {"none"} \cup DoublePhis]

NoPhi == [b \in {} |-> 0]

\* value expressions carried by the incoming edges
Const(n) == [op |-> "const", n |-> n]
Expr(op) == [op |-> op, n |-> 0]

\* the structured conditional of finalize_smem_idx:
\*   cond = (idx == num_stages-1); _ret = phi(then: 0, else: idx + 1)
smem_idx_ret_bug(idx, num_stages) == IF idx = num_stages THEN 0 ELSE idx + 1
smem_idx_ret(idx, num_stages) == IF idx = num_stages - 1 THEN 0 ELSE idx + 1

\* neg(offset) of a signed 32-bit value: 0 - x, wrapping at the minimum
MinInt32 == -2147483647 - 1
neg32_bug(x) == x
neg32(x) == IF x = MinInt32 THEN MinInt32 ELSE 0 - x

\* visit_layout_shared: the placeholders, none with an incoming edge
visit_layout_shared ==
  /\ lpc = "start"
  /\ sphi' = [read_smem_idx |-> NoPhi, write_smem_idx |-> NoPhi,
              shared_ptr |-> NoPhi, shared_next_ptr |-> NoPhi,
              shared_off |-> NoPhi]
  /\ lpc' = "created"
  /\ UNCHANGED <<shared, run, notLoop>>

\* one incoming edge added to a phi
AddIncoming(phi, blk, e) == [b \in DOMAIN phi \cup {blk} |-> IF b = blk THEN e ELSE phi[b]]

\* finalize_smem_idx(smem_idx, init_stage)
finalize_smem_idx(phi, init_stage) ==
  AddIncoming(AddIncoming(phi, Header, Const(init_stage)), Loop, Expr("ret"))

\* the initial stage of the write index
write_init_stage_bug(l) == 0
write_init_stage(l) == l.num_stages - 1

\* the double-buffer offset on the non-latch edge: size / (2 * num_bytes)
double_stride(l) == l.size \div (2 * l.num_bytes)

\* double buffer: the loop over the incoming edges of info.phi
\* incoming n of the ir phi: (block, value); the latch value comes from the loop
DoubleIncoming(l) ==
  IF l.latch_first THEN << <<Loop, "latch">>, <<Header, "first">> >>
                   ELSE << <<Header, "first">>, <<Loop, "latch">> >>

double_off_incoming(l, inc_val) ==
  IF inc_val = "latch" THEN Expr("neg_off") ELSE Const(double_stride(l))

double_ptr_incoming(inc_val) ==
  IF inc_val = "latch" THEN Expr("next_ptr") ELSE Expr("pre_ptr")

RECURSIVE wire_double(_, _, _, _)
wire_double(l, phis, incs, n) ==
  IF n > Len(incs) THEN phis
  ELSE wire_double(l,
         [phis EXCEPT
            !.shared_off = AddIncoming(@, incs[n][1], double_off_incoming(l, incs[n][2])),
            !.shared_ptr = AddIncoming(@, incs[n][1], double_ptr_incoming(incs[n][2]))],
         incs, n + 1)

\* dyn_cast<PHINode>, isa<PHINode> of a value of the tables
is_PHINode(l, name) == l.not_phi # name

\* the N-stage branch: <<how it ends, the phis as it leaves them>>.  The two
\* indices and the current pointer are checked with dyn_cast and a throw; the
\* next pointer is checked by an assert only, which a build without
\* assertions drops: the static_cast then adds the edges to a value that is
\* no PHINode, which is undefined.
finalize_N_buffer(l, phis) ==
  LET p1 == [phis EXCEPT !.read_smem_idx = finalize_smem_idx(@, 2)]
      p2 == [p1 EXCEPT !.write_smem_idx = finalize_smem_idx(@, write_init_stage(l))]
      p3 == [p2 EXCEPT !.shared_ptr =
               AddIncoming(AddIncoming(@, Header, Expr("pre_ptr")), Loop, Expr("next_ptr"))]
      p4 == [p3 EXCEPT !.shared_next_ptr =
               AddIncoming(AddIncoming(@, Header, Expr("pre_ptr_1")), Loop, Expr("read_ptr"))]
  IN IF ~is_PHINode(l, "read_smem_idx") THEN {<<"throw", phis>>}
     ELSE IF ~is_PHINode(l, "write_smem_idx") THEN {<<"throw", p1>>}
     ELSE IF ~is_PHINode(l, "shared_ptr") THEN {<<"throw", p2>>}
     ELSE IF ~is_PHINode(l, "shared_next_ptr")
     THEN {<<"abort", p3>>, <<"crash", p3>>, <<"undefined", p4>>}
     ELSE {<<"finalized", p4>>}

\* the double-buffer branch: (PHINode*) casts without a check
finalize_double_buffer(l, phis) ==
  IF is_PHINode(l, "shared_ptr") /\ is_PHINode(l, "shared_off")
  THEN {<<"finalized", wire_double(l, phis, DoubleIncoming(l), 1)>>}
  ELSE {<<"crash", phis>>,
        <<"undefined", wire_double(l, phis, DoubleIncoming(l), 1)>>}

finalize_shared_layout ==
  /\ lpc = "created"
  /\ \E r \in IF shared.kind = "N" THEN finalize_N_buffer(shared, sphi)
               ELSE finalize_double_buffer(shared, sphi) :
       /\ lpc' = r[1]
       /\ sphi' = r[2]
  /\ UNCHANGED <<shared, run, notLoop>>

\* shared_pre_ptr_ = gep(shmem_, offset) : element pointers are byte addresses
pre_ptr(l) == l.offset
gep(l, ptr, elements) == ptr + elements * l.num_bytes

\* next_ptr_header = gep(shared_pre_ptr_, per_stage_elements)
next_ptr_header_bug(l) == pre_ptr(l)
next_ptr_header(l) == gep(l, pre_ptr(l), l.per_stage_elements)

\* lds_offset = mul(read_smem_idx_, per_stage_elements)
lds_offset_bug(l, read_idx) == (read_idx + 1) * l.per_stage_elements
lds_offset(l, read_idx) == read_idx * l.per_stage_elements

\* value of an incoming expression, given the phi values of the iteration that ends
EvalInc(l, e, r, idx) ==
  CASE e.op = "const" -> e.n
    [] e.op = "ret" -> smem_idx_ret(idx, l.num_stages)
    [] e.op = "pre_ptr" -> pre_ptr(l)
    [] e.op = "pre_ptr_1" -> next_ptr_header(l)
    [] e.op = "next_ptr" -> IF l.kind = "N" THEN r.shared_next_ptr
                            ELSE gep(l, r.shared_ptr, r.shared_off)
    [] e.op = "read_ptr" -> gep(l, pre_ptr(l), lds_offset(l, r.read_smem_idx))
    [] e.op = "neg_off" -> neg32(r.shared_off)

Undef == -1000000

PhiVal(l, name, blk, r, idx) ==
  IF blk \in DOMAIN sphi[name] THEN EvalInc(l, sphi[name][blk], r, idx) ELSE Undef

NoRun == [iter |-> -1, read_smem_idx |-> Undef, write_smem_idx |-> Undef,
          shared_ptr |-> Undef, shared_next_ptr |-> Undef, shared_off |-> Undef,
          latch_ptr |-> Undef]

\* visit_value: the pointer handed to the latch value, shmems_[latch], with the
\* phi values r of the iteration
latch_ptr_bug(l, r) == gep(l, pre_ptr(l), (r.write_smem_idx + 1) * l.per_stage_elements)
latch_ptr(l, r) ==
  IF l.kind = "N" THEN gep(l, pre_ptr(l), r.write_smem_idx * l.per_stage_elements)
  ELSE gep(l, r.shared_ptr, r.shared_off)

\* the phi values of an iteration and what the loop body computes from them
iteration(l, r) ==
  [x \in DOMAIN r \cup {"latch_ptr"} |-> IF x = "latch_ptr" THEN latch_ptr(l, r) ELSE r[x]]

\* the generated loop is entered from the header: every phi takes its header edge
LoopEnter ==
  /\ lpc = "finalized"
  /\ run' = iteration(shared, [iter |-> 0,
             read_smem_idx |-> PhiVal(shared, "read_smem_idx", Header, run, 0),
             write_smem_idx |-> PhiVal(shared, "write_smem_idx", Header, run, 0),
             shared_ptr |-> PhiVal(shared, "shared_ptr", Header, run, 0),
             shared_next_ptr |-> PhiVal(shared, "shared_next_ptr", Header, run, 0),
             shared_off |-> PhiVal(shared, "shared_off", Header, run, 0)])
  /\ lpc' = "running"
  /\ UNCHANGED <<shared, sphi, notLoop>>

\* the back edge is taken: every phi takes its latch edge
LoopLatch ==
  /\ lpc = "running"
  /\ run.iter < MaxIter
  /\ run' = iteration(shared, [iter |-> run.iter + 1,
             read_smem_idx |-> PhiVal(shared, "read_smem_idx", Loop, run, run.read_smem_idx),
             write_smem_idx |-> PhiVal(shared, "write_smem_idx", Loop, run, run.write_smem_idx),
             shared_ptr |-> PhiVal(shared, "shared_ptr", Loop, run, 0),
             shared_next_ptr |-> PhiVal(shared, "shared_next_ptr", Loop, run, 0),
             shared_off |-> PhiVal(shared, "shared_off", Loop, run, 0)])
  /\ UNCHANGED <<shared, sphi, lpc, notLoop>>

InitLoop ==
  /\ shared \in SharedLayouts
  /\ sphi = Idle
  /\ lpc = "start"
  /\ run = NoRun

IdleLoop == shared = Idle /\ sphi = Idle /\ lpc = Idle /\ run = Idle

NextLoop ==
  \/ visit_layout_shared
  \/ finalize_shared_layout
  \/ LoopEnter
  \/ LoopLatch


(***************************************************************************)
(* Index materializer: visit_layout_scanline and init_idx                  *)
(***************************************************************************)
\* bounds of the index model
MaxWarpsIdx == 1
MaxNts == 2
MaxReps == 2
MaxPerLane == 4

WarpSize == 32

Dims(r) == 0..(r - 1)

RECURSIVE ProdUpTo(_, _)
\* product of f[0] .. f[n-1]
ProdUpTo(f, n) == IF n = 0 THEN 1 ELSE f[n - 1] * ProdUpTo(f, n - 1)

Divisors(n) == {d \in 1..n : n % d = 0}

\* the per-dimension lane counts of a layout that tiles `lanes` lanes
MtsOf(r, lanes) ==
  CASE r = 1 -> {[d \in Dims(1) |-> lanes]}
    [] r = 2 -> {[d \in Dims(2) |-> IF d = 0 THEN a ELSE lanes \div a] : a \in Divisors(lanes)}
    [] r = 3 -> UNION {{[d \in Dims(3) |-> IF d = 0 THEN a ELSE IF d = 1 THEN b ELSE lanes \div (a * b)]
                         : b \in Divisors(lanes \div a)} : a \in Divisors(lanes)}

DimOrders(r) == {f \in [Dims(r) -> Dims(r)] : \A d \in Dims(r) : \E e \in Dims(r) : f[e] = d}

\* the layouts the layout analysis hands over: every lane owns one sub-tile,
\* shape[k] = reps[k] * nts[k] * mts[k] and the mts multiply to the lane count
ScanlineTiles(r, lanes, cap) ==
  {[rank |-> r, shape |-> [d \in Dims(r) |-> tile[2][d] * tile[1][d] * mts[d]],
    order |-> ord, nts |-> tile[1], mts |-> mts] :
      ord \in DimOrders(r),
      mts \in MtsOf(r, lanes),
      tile \in {t \in [Dims(r) -> 1..MaxNts] \X [Dims(r) -> 1..MaxReps] :
                  ProdUpTo(t[1], r) * ProdUpTo(t[2], r) <= cap}}

ScanlineLayoutsOfRank(r, lanes) == ScanlineTiles(r, lanes, MaxPerLane)

ScanlineLayouts(lanes) == UNION {ScanlineLayoutsOfRank(r, lanes) : r \in 1..3}

shape_per_cta(l, k) == l.mts[k] * l.nts[k]

NumElements(l) == ProdUpTo(l.shape, l.rank)

\* visit_layout_scanline, "Delinearize": thread_id[order[k]] for k = from .. dim-1
RECURSIVE Delinearize(_, _, _, _)
Delinearize(l, full_thread_id, k, thread_id) ==
  IF k = l.rank - 1
  THEN [thread_id EXCEPT ![l.order[k]] = full_thread_id]
  ELSE Delinearize(l, full_thread_id \div l.mts[l.order[k]], k + 1,
                   [thread_id EXCEPT ![l.order[k]] = full_thread_id % l.mts[l.order[k]]])

\* offset of the n-th element a lane owns along one dimension
scanline_offset_bug(n, nts, per_cta) == n
scanline_offset(n, nts, per_cta) == ((n \div nts) * per_cta) + (n % nts)

\* visit_layout_scanline, "Create axes": the distributed_axis of dimension k of one lane
scanline_axis(l, thread_id, k) ==
  LET nts == l.nts[k]
      per_cta == shape_per_cta(l, k)
      per_thread == (nts * l.shape[k]) \div per_cta
      scaled_thread_id == thread_id[k] * nts
  IN [contiguous |-> nts,
      values |-> [n \in 1..per_thread |->
                    scaled_thread_id + scanline_offset(n - 1, nts, per_cta)],
      thread_id |-> thread_id[k]]

Lanes == 0..(WarpSize * num_warps - 1)

\* local id -> warp, lane -> full_thread_id
full_thread_id(tid) == ((tid \div WarpSize) * 32) + (tid % WarpSize)

visit_layout_scanline ==
  /\ ipc = "start"
  /\ axes' = [t \in Lanes |->
                LET thread_id == Delinearize(layout, full_thread_id(t), 0,
                                             [d \in Dims(layout.rank) |-> 0])
                IN [k \in Dims(layout.rank) |-> scanline_axis(layout, thread_id, k)]]
  /\ ipc' = "layouts"
  /\ UNCHANGED <<num_warps, layout, idxs, ords, notIdx>>

\* init_idx, "compute axes": an extent of 1 gives the single coordinate 0
idx_axis(l, ax, d) ==
  IF l.shape[d] > 1 THEN ax[d]
  ELSE [contiguous |-> 1, values |-> <<0>>, thread_id |-> 0]

\* init_idx, "compute order": iota sorted by layout->get_order(pos of the axis)
idx_ord(l) ==
  [i \in Dims(l.rank) |->
     CHOOSE d \in Dims(l.rank) :
       Cardinality({e \in Dims(l.rank) : l.order[e] < l.order[d]}) = i]

\* the element of a one-element set (binds an intermediate result once)
Only(S) == CHOOSE x \in S : TRUE

\* init_idx, "indices": the nested loops, ord[0] innermost
idx_tuples(r, vals, len, pos) ==
  [p \in 1..ProdUpTo(len, r) |->
     [d \in Dims(r) |-> vals[d][(((p - 1) \div ProdUpTo(len, pos[d])) % len[pos[d]]) + 1]]]

idx_product(l, ax, ord) ==
  Only({idx_tuples(l.rank, vals,
                   [i \in Dims(l.rank) |-> Len(vals[ord[i]])],
                   [d \in Dims(l.rank) |-> CHOOSE j \in Dims(l.rank) : ord[j] = d])
          : vals \in {[d \in Dims(l.rank) |-> idx_axis(l, ax, d).values]}})

init_idx ==
  /\ ipc = "layouts"
  /\ ords' = idx_ord(layout)
  /\ idxs' = [t \in Lanes |-> idx_product(layout, axes[t], ords')]
  /\ ipc' = "done"
  /\ UNCHANGED <<num_warps, layout, axes, notIdx>>

InitIdx ==
  /\ num_warps \in 1..MaxWarpsIdx
  /\ layout \in ScanlineLayouts(WarpSize * num_warps)
  /\ axes = <<>> /\ idxs = <<>> /\ ords = <<>>
  /\ ipc = "start"

IdleIdx == num_warps = Idle /\ layout = Idle /\ axes = Idle /\ idxs = Idle
           /\ ords = Idle /\ ipc = Idle

NextIdx ==
  \/ visit_layout_scanline
  \/ init_idx

(***************************************************************************)
(* Load lowering: visit_load_inst, and one lane running what it emits      *)
(***************************************************************************)
\* bound of the load model: runs of nts indices that one lane owns
MaxLdRuns == 2

\* the loads of the model.  dtsize: bytes of an element; nts: run length of
\* the layout along ord[0]; aln: what the alignment analysis says; strided:
\* whether consecutive vector groups are apart in memory; form: the pointer is
\* a plain value, a pointer-add with a constant index or one with a variable
\* index; maskk: the mask (none: unmasked load); okind: the false value
\* (gep_neg: a constant index below zero); okind: what the false value is: no
\* value, the constant zero, another constant, a computed value, or zero at the
\* first or at the last half of the indices of a vector group
LoadInsts ==
  {l \in [dtsize : {1, 2, 4, 8}, nts : {1, 2, 4, 8}, aln : {1, 2, 4, 8}, runs : 1..MaxLdRuns,
          strided : BOOLEAN, form : {"value", "gep_cst", "gep_neg", "gep_var"},
          maskk : {"none", "true", "false", "mixed"},
          okind : {"undef", "zero", "const", "value", "zero_first", "zero_last"}] :
     l.maskk = "none" => l.okind = "undef"}

\* number of materialized indices of the result: idxs_.at(x).size()
ld_count(l) == l.nts * l.runs

\* vec = std::min(nts, aln)
ld_vec(l) == Min(l.nts, l.aln)

\* the address the pointer operand holds at index i (from 0): the alignment
\* analysis promises that the aln indices of an aligned group are contiguous
ld_addr(l, i) ==
  LET vec == ld_vec(l)
      stride == IF l.strided THEN 128 ELSE vec * l.dtsize
  IN 4096 + ((i \div vec) * stride) + ((i % vec) * l.dtsize)

\* where the pointer-add of the model starts: below the addresses, or above
\* them so that the index is negative
gep_base(l) == IF l.form = "gep_neg" THEN 16384 ELSE 4096

\* the llvm value vals_[op][idx]: a GetElementPtrInst or not, its index a ConstantInt or not
ld_ptr(l, i) ==
  IF l.form = "value"
  THEN [gep |-> FALSE, cst |-> FALSE, base |-> ld_addr(l, i), index |-> 0]
  ELSE [gep |-> TRUE, cst |-> (l.form \in {"gep_cst", "gep_neg"}), base |-> gep_base(l),
        index |-> (ld_addr(l, i) - gep_base(l)) \div l.dtsize]

ptr_value(l, p) == p.base + (p.index * l.dtsize)

\* the mask and the false value at index i (from 0)
ld_mask(l, i) == l.maskk \in {"none", "true"} \/ (l.maskk = "mixed" /\ i % 2 = 0)
ld_other_zero(l, i) ==
  \/ l.okind = "zero"
  \/ l.okind = "zero_first" /\ 2 * (i % ld_vec(l)) < ld_vec(l)
  \/ l.okind = "zero_last" /\ 2 * (i % ld_vec(l)) >= ld_vec(l)
ld_other(l, i) == IF ld_other_zero(l, i) THEN 0 ELSE 500 + i

\* content of global memory at an address
Mem(a) == 1000 + a

\* word sizes of one vector group
ld_width(l) == Min(l.dtsize * 8 * ld_vec(l), Max(32, l.dtsize * 8))
ld_n_words_bug(l) == Max(1, (l.dtsize * 8 * ld_vec(l)) \div 32)
ld_n_words(l) == Max(1, (l.dtsize * 8 * ld_vec(l)) \div ld_width(l))

\* "extract and store return values": element ii of the group comes from rets[ii/tmp][ii%tmp]
ld_extract_bug(ii, tmp) == <<0, ii % tmp>>
ld_extract(ii, tmp) == <<ii \div tmp, ii % tmp>>

\* 64-bit words (size_t, int64_t, addresses) as four 16-bit limbs, the least
\* significant first
U64(n) == <<n % 65536, (n \div 65536) % 65536, 0, 0>>
Add64(a, b) ==
  LET s0 == a[1] + b[1]
      s1 == a[2] + b[2] + (s0 \div 65536)
      s2 == a[3] + b[3] + (s1 \div 65536)
      s3 == a[4] + b[4] + (s2 \div 65536)
  IN <<s0 % 65536, s1 % 65536, s2 % 65536, s3 % 65536>>
Neg64(a) == Add64(<<65535 - a[1], 65535 - a[2], 65535 - a[3], 65535 - a[4]>>, U64(1))
\* the product with a small unsigned factor, modulo 2^64
Mul64(a, k) ==
  LET p0 == a[1] * k
      p1 == (a[2] * k) + (p0 \div 65536)
      p2 == (a[3] * k) + (p1 \div 65536)
      p3 == (a[4] * k) + (p2 \div 65536)
  IN <<p0 % 65536, p1 % 65536, p2 % 65536, p3 % 65536>>
\* the unsigned quotient by 8
Div64by8(a) ==
  <<(a[1] \div 8) + ((a[2] % 8) * 8192), (a[2] \div 8) + ((a[3] % 8) * 8192),
    (a[3] \div 8) + ((a[4] % 8) * 8192), a[4] \div 8>>
\* cst->getValue().getSExtValue(): the index as an int64_t
getSExtValue(i) == IF i >= 0 THEN U64(i) ELSE Neg64(U64(-i))
\* the address a 64-bit word denotes, when it lies in the modelled memory
Addr64(a) == IF a[3] = 0 /\ a[4] = 0 /\ a[2] < 32768 THEN a[1] + (65536 * a[2]) ELSE Undef

\* "input ptr info": the constant index of a pointer-add goes to the immediate
\* (size_t in_off = getSExtValue() * dtsize), the pointer-add's base is the operand
in_gep(p, dtsize) ==
  IF p.gep /\ p.cst
  THEN [in_off |-> Mul64(getSExtValue(p.index), dtsize), ptr |-> p.base]
  ELSE [in_off |-> U64(0), ptr |-> p.base + (p.index * dtsize)]

\* dyn_cast<ConstantInt>(bit_cast(v, int type)) for the vector v of the false
\* values of a word: the constant folder turns the cast of a vector into an
\* integer constant for the null vector only
is_ConstantInt(l, v) == \A s \in DOMAIN v : ld_other_zero(l, v[s])

\* the indices whose false values make word ii (from 0) of the group at i
ld_other_idxs(l, i, ii) ==
  LET size == ld_width(l) \div (l.dtsize * 8)
  IN [s \in 1..size |-> i + (ii * size) + (s - 1)]

\* the `other` operands pushed for words ii .. n_words-1 of the group at i
RECURSIVE ld_others(_, _, _)
ld_others_bug(l, i, ii) ==
  IF ii >= ld_n_words(l) THEN <<>>
  ELSE <<[s \in DOMAIN ld_other_idxs(l, i, ii) |-> ld_other(l, ld_other_idxs(l, i, ii)[s])]>>
         \o ld_others(l, i, ii + 1)
ld_others(l, i, ii) ==
  IF ii >= ld_n_words(l) THEN <<>>
  ELSE LET at == ld_other_idxs(l, i, ii)
           v == [s \in DOMAIN at |-> ld_other(l, at[s])]
       IN (IF is_ConstantInt(l, at) THEN <<>> ELSE <<v>>) \o ld_others(l, i, ii + 1)

\* the placeholder of the false value of word ii (from 0): "$" << n_words + 2 + ii
ld_placeholder(n_words, ii) == n_words + 2 + ii

\* the constraint letter of a word
ld_cstrt(width) == IF width = 64 THEN "l" ELSE IF width = 32 THEN "r" ELSE "c"

\* the inline fragment of the vector group that starts at index i
ld_fragment(l, i) ==
  LET ptr == ld_ptr(l, i)
      width == ld_width(l)
      n_words == ld_n_words(l)
      in == in_gep(ptr, l.dtsize)
      has_other == l.maskk # "none" /\ l.okind # "undef"
      others == IF has_other THEN ld_others(l, i, 0) ELSE <<>>
  IN [n_words |-> n_words,
      width |-> width,
      in_off |-> in.in_off,
      ptr |-> in.ptr,
      pred |-> i,
      text |-> <<"ld">> \o (IF has_other THEN [ii \in 1..n_words |-> "mov"] ELSE <<>>),
      movs |-> IF has_other
               THEN [ii \in 1..n_words |->
                       LET at == ld_other_idxs(l, i, ii - 1)
                       IN [imm |-> is_ConstantInt(l, at),
                           val |-> [s \in DOMAIN at |-> ld_other(l, at[s])],
                           opnd |-> ld_placeholder(n_words, ii - 1)]]
               ELSE <<>>,
      others |-> others,
      cstrt |-> [ii \in 1..n_words |-> [out |-> TRUE, reg |-> ld_cstrt(width)]]
                  \o <<[out |-> FALSE, reg |-> "b"], [out |-> FALSE, reg |-> "l"]>>
                  \o [ii \in DOMAIN others |-> [out |-> FALSE, reg |-> ld_cstrt(width)]]]

visit_load_inst ==
  /\ ld_pc = "start"
  /\ ld_asm' = [g \in 1..(ld_count(ld) \div ld_vec(ld)) |->
                  ld_fragment(ld, (g - 1) * ld_vec(ld))]
  /\ ld_vals' = [j \in 0..(ld_count(ld) - 1) |->
                   LET ii == j % ld_vec(ld)
                       tmp == ld_width(ld) \div (ld.dtsize * 8)
                   IN <<(j \div ld_vec(ld)) + 1>> \o ld_extract(ii, tmp)]
  /\ ld_pc' = "emitted"
  /\ UNCHANGED <<ld, ld_res, notLd>>

\* a register nobody wrote
UndefReg == Undef

\* the words one lane holds after fragment f: "@p ld ...; @!p mov ..."
run_fragment(l, f) ==
  LET p == ld_mask(l, f.pred)
      size == f.width \div (l.dtsize * 8)
      a == Addr64(Add64(U64(f.ptr), f.in_off))
      args == <<p, f.ptr>> \o f.others
      operand(k) == IF k - f.n_words + 1 \in DOMAIN args
                    THEN args[k - f.n_words + 1] ELSE [s \in 1..size |-> UndefReg]
  IN [ii \in 1..f.n_words |->
        IF p THEN [s \in 1..size |-> Mem(a + ((((ii - 1) * size) + (s - 1)) * l.dtsize))]
        ELSE IF f.movs = <<>> THEN [s \in 1..size |-> UndefReg]
        ELSE IF f.movs[ii].imm THEN f.movs[ii].val
        ELSE operand(f.movs[ii].opnd)]

run_load ==
  /\ ld_pc = "emitted"
  /\ ld_res' = [j \in DOMAIN ld_vals |->
                  run_fragment(ld, ld_asm[ld_vals[j][1]])[ld_vals[j][2] + 1][ld_vals[j][3] + 1]]
  /\ ld_pc' = "done"
  /\ UNCHANGED <<ld, ld_asm, ld_vals, notLd>>

InitLd ==
  /\ ld \in LoadInsts
  /\ ld_asm = <<>> /\ ld_vals = <<>> /\ ld_res = <<>>
  /\ ld_pc = "start"

IdleLd == ld = Idle /\ ld_asm = Idle /\ ld_vals = Idle /\ ld_res = Idle /\ ld_pc = Idle

NextLd ==
  \/ visit_load_inst
  \/ run_load

(***************************************************************************)
(* Shared-memory instruction streams (reductions, layout conversion) and   *)
(* the warps of one thread-block running them                              *)
(***************************************************************************)
\* bound of the stream model: warps of a thread-block in the N-D kernels
MaxWarpsNd == 2

\* num_warps_: the warp counts a kernel is launched with
WarpCounts == {1, 2, 4, 8}

KLanes(k) == 0..((WarpSize * k.num_warps) - 1)
Warps(k) == 0..(k.num_warps - 1)
WLanes(w) == (WarpSize * w)..((WarpSize * w) + (WarpSize - 1))

\* an emitted instruction; addr and cond are given for every lane, because
\* they are computed from the lane's thread id alone
Instr(op, dst, src, i, addr, cond) ==
  [op |-> op, dst |-> dst, src |-> src, i |-> i, addr |-> addr, cond |-> cond]

NoReg == <<"none", 0, 0>>
Reg(r) == <<"reg", r>>
Imm(v) == <<"imm", v>>
Always(k) == [t \in KLanes(k) |-> TRUE]

\* add_barrier()
Bar(k) == Instr("bar", NoReg, Reg(NoReg), 0, <<>>, Always(k))
\* store(src, gep(base, addr)) and dst = load(gep(base, addr))
St(k, src, addr, cond) == Instr("st", NoReg, src, 0, addr, cond)
Ld(k, dst, addr, cond) == Instr("ld", dst, Reg(NoReg), 0, addr, cond)
\* dst = src                                   (acc = val)
Mov(k, dst, src) == Instr("mov", dst, Reg(src), 0, <<>>, Always(k))
\* dst = do_acc(dst, src)
Acc(k, dst, src) == Instr("acc", dst, Reg(src), 0, <<>>, Always(k))
\* dst = do_acc(dst, shfl_sync(dst, i))
Bfly(k, dst, i, cond) == Instr("bfly", dst, Reg(dst), i, <<>>, cond)

RECURSIVE Flatten(_)
Flatten(ss) == IF ss = <<>> THEN <<>> ELSE Head(ss) \o Flatten(Tail(ss))

\* for(i = n; i > 0; i >>= 1)
RECURSIVE Halving(_)
Halving(n) == IF n = 0 THEN <<>> ELSE <<n>> \o Halving(n \div 2)

\* the accumulation function and the neutral element of visit_reduce_inst
do_acc(op, x, y) ==
  IF x = Undef \/ y = Undef THEN Undef
  ELSE CASE op = "add" -> x + y
         [] op = "max" -> IF x >= y THEN x ELSE y
         [] op = "min" -> IF x <= y THEN x ELSE y

neutral(op) ==
  CASE op = "add" -> 0
    [] op = "max" -> MinInt32
    [] op = "min" -> -(MinInt32 + 1)

\* shared_off: strides[order[0]] = 1, strides[order[i]] = strides[order[i-1]] * shapes[order[i-1]]
RECURSIVE shared_stride(_, _, _)
shared_stride(shapes, order, i) ==
  IF i = 0 THEN 1 ELSE shared_stride(shapes, order, i - 1) * shapes[order[i - 1]]

RECURSIVE SumUpTo(_, _)
\* f[0] + .. + f[n-1]
SumUpTo(f, n) == IF n = 0 THEN 0 ELSE f[n - 1] + SumUpTo(f, n - 1)

shared_off(shapes, order, idx) ==
  LET r == Cardinality(DOMAIN idx)
      pos == [d \in Dims(r) |-> CHOOSE i \in Dims(r) : order[i] = d]
  IN SumUpTo([d \in Dims(r) |-> idx[d] * shared_stride(shapes, order, pos[d])], r)

\* axes_ of one lane, and the coordinate it has at a tuple of axis positions
lane_axes(l, t) ==
  Only({[k \in Dims(l.rank) |-> scanline_axis(l, thread_id, k)] :
          thread_id \in {Delinearize(l, full_thread_id(t), 0, [d \in Dims(l.rank) |-> 0])}})

\* an analysis::mma_layout (sm >= 80): warps per tile, shape per warp
IsMma(l) == "wpt" \in DOMAIN l

\* visit_layout_mma, cc >= 80: the axes of the accumulator of one lane
mma_axes(l, t) ==
  LET lane == t % 32
      warp == t \div 32
      warp_0 == warp % l.wpt[0]
      warp_12 == warp \div l.wpt[0]
      warp_1 == warp_12 % l.wpt[1]
      off_warp_m == warp_0 * l.spw[0]
      off_warp_n == warp_1 * l.spw[1]
      off_c_m == (lane \div 4) + off_warp_m
      off_c_n == (2 * (lane % 4)) + off_warp_n
      per_cta == [d \in Dims(2) |-> l.spw[d] * l.wpt[d]]
  IN [d \in Dims(2) |->
        IF d = 0
        THEN [contiguous |-> 1,
              values |-> [n \in 1..(2 * (l.shape[0] \div per_cta[0])) |->
                            off_c_m + (((n - 1) \div 2) * per_cta[0]) + (((n - 1) % 2) * 8)],
              thread_id |-> warp_0]
        ELSE [contiguous |-> 1,
              values |-> [n \in 1..(2 * (l.shape[1] \div per_cta[1])) |->
                            off_c_n + (((n - 1) \div 2) * per_cta[1]) + ((n - 1) % 2)],
              thread_id |-> warp_1]]

layout_axes(l, t) == IF IsMma(l) THEN mma_axes(l, t) ELSE lane_axes(l, t)

\* distributed_layout::shape_per_cta
layout_per_cta(l, d) == IF IsMma(l) THEN l.spw[d] * l.wpt[d] ELSE shape_per_cta(l, d)

\* axes_ of every lane of a launch
all_axes(l, lanes) == <<>> @@ [t \in lanes |-> layout_axes(l, t)]

\* idxs_[v] as tuples of positions in the axes: the llvm values the tables are keyed by
idx_positions(l) ==
  idx_product(l, [d \in Dims(l.rank) |->
                    [contiguous |-> 1,
                     values |-> [n \in 1..Len(lane_axes(l, 0)[d].values) |-> n],
                     thread_id |-> 0]],
              idx_ord(l))

\* positions of an extent-1 dimension are the constant 0
coord_at(l, ax, P) ==
  [d \in Dims(l.rank) |-> IF l.shape[d] > 1 THEN ax[d].values[P[d]] ELSE 0]

(***************************************************************************)
(* visit_reduce_inst                                                       *)
(***************************************************************************)
\* the value of the element at a coordinate of the reduced operand
red_input(k, c) ==
  IF k.pattern = "ones" THEN 1
  ELSE 1 + SumUpTo([d \in Dims(k.layout.rank) |->
                      c[d] * ProdUpTo(k.layout.shape, d)], k.layout.rank)

\* accs: the keys (pidx) in the order the map is walked
red_groups(k) ==
  LET ps == idx_positions(k.layout)
      first == SelectSeq(ps, LAMBDA P : k.layout.shape[k.axis] = 1 \/ P[k.axis] = 1)
  IN [g \in 1..Len(first) |-> first[k.gperm[g]]]

red_pidx(k, P) == [P EXCEPT ![k.axis] = IF k.layout.shape[k.axis] > 1 THEN 1 ELSE @]

\* "reduce within thread"
red_fold(k) ==
  LET ps == idx_positions(k.layout)
  IN [n \in 1..Len(ps) |->
        IF ps[n] = red_pidx(k, ps[n])
        THEN Mov(k, <<"acc", red_pidx(k, ps[n]), 0>>, <<"in", ps[n], 0>>)
        ELSE Acc(k, <<"acc", red_pidx(k, ps[n]), 0>>, <<"in", ps[n], 0>>)]

warp0(k) == [t \in KLanes(k) |-> t \div WarpSize = 0]

\* the number of lanes the cross-warp butterfly starts from
cross_warp_start_bug(nw) == 0
cross_warp_start(nw) == (nw + 1) \div 2

visit_reduce1d_inst(k) ==
  LET acc == <<"acc", [d \in Dims(1) |-> 1], 0>>
      ret == <<"ret", 0, 0>>
      thread == [t \in KLanes(k) |-> t]
      warp == [t \in KLanes(k) |-> t \div 32]
      lane == [t \in KLanes(k) |-> t % 32]
      cond == warp0(k)
      cross == Halving(cross_warp_start(k.num_warps))
  IN [prog |->
        red_fold(k)
        \o [j \in 1..5 |-> Bfly(k, acc, Halving(16)[j], Always(k))]
        \o <<Bar(k), St(k, Imm(neutral(k.op)), lane, Always(k)),
             Bar(k), St(k, Reg(acc), warp, Always(k)),
             Bar(k),
             Ld(k, ret, thread, cond)>>
        \o [j \in 1..Len(cross) |-> Bfly(k, ret, cross[j], cond)]
        \o <<St(k, Reg(ret), thread, cond),
             Bar(k),
             Ld(k, <<"bcast", 0, 0>>, [t \in KLanes(k) |-> 0], Always(k))>>,
      outs |-> <<<<"bcast", 0, 0>>>>]

\* layouts_->tmp(x): the scratch tile has mts(axis) slots along the reduced axis
red_tmp_shape(k) == [k.layout.shape EXCEPT ![k.axis] = k.layout.mts[k.axis]]

\* the barrier in front of the load of one halving step
red_step_barrier_bug(k) == <<>>
red_step_barrier(k) == <<Bar(k)>>

\* for(size_t i = shape[axis]/2; i > 0; i >>= 1)
reducend_steps_bug(shape, axis) == Halving(shape[axis] \div 4)
reducend_steps(shape, axis) == Halving(shape[axis] \div 2)

\* one entry of accs: store, then halve the live lanes along the axis
reducend_group(k, ax, K) ==
  LET l == k.layout
      shape == red_tmp_shape(k)
      acc == <<"acc", K, 0>>
      cur == <<"cur", 0, 0>>
      lane == [t \in KLanes(k) |-> ax[t][k.axis].thread_id]
      write_off == [t \in KLanes(k) |->
                      shared_off(shape, l.order,
                                 [coord_at(l, ax[t], K) EXCEPT ![k.axis] = lane[t]])]
      steps == reducend_steps(shape, k.axis)
  IN <<Bar(k), St(k, Reg(acc), write_off, Always(k))>>
     \o Flatten([j \in 1..Len(steps) |->
          LET i == steps[j]
              read_off == [t \in KLanes(k) |->
                             IF lane[t] < i
                             THEN shared_off(shape, l.order,
                                             [d \in Dims(l.rank) |-> IF d = k.axis THEN i ELSE 0])
                             ELSE 0]
          IN red_step_barrier(k)
             \o <<Ld(k, cur, [t \in KLanes(k) |-> write_off[t] + read_off[t]], Always(k)),
                  Acc(k, acc, cur),
                  Bar(k),
                  St(k, Reg(acc), write_off, Always(k))>>])

\* idxs_[x] of the result: the positions of the operand with the axis removed
red_out_positions(k) ==
  SelectSeq(idx_positions(k.layout), LAMBDA P : P = red_pidx(k, P))

visit_reducend_inst(k) ==
  LET l == k.layout
      groups == red_groups(k)
      outp == red_out_positions(k)
  IN Only({
       [prog |->
          red_fold(k)
          \o Flatten([g \in 1..Len(groups) |-> reducend_group(k, ax, groups[g])])
          \o <<Bar(k)>>
          \o [n \in 1..Len(outp) |->
                Ld(k, <<"out", outp[n], 0>>,
                   [t \in KLanes(k) |->
                      shared_off(red_tmp_shape(k), l.order,
                                 [coord_at(l, ax[t], outp[n]) EXCEPT ![k.axis] = 0])],
                   Always(k))],
        outs |-> [n \in 1..Len(outp) |-> <<"out", outp[n], 0>>]]
       : ax \in {all_axes(l, KLanes(k))}})

\* bounds of the reduction model: elements of an N-D operand, and elements
\* one lane holds of a 1-D operand
MaxRedTile == 64
MaxRedFold == 2

\* the operand layouts of the model
RedLayouts(nw) ==
  {l \in ScanlineLayoutsOfRank(1, WarpSize * nw) :
     NumElements(l) <= MaxRedFold * WarpSize * nw}
  \cup (IF nw > MaxWarpsNd THEN {}
        ELSE {l \in ScanlineLayoutsOfRank(2, WarpSize * nw) : NumElements(l) <= MaxRedTile})

\* the first position of every entry of accs, in the order of idxs_
red_first(l, a) == SelectSeq(idx_positions(l), LAMBDA P : P[a] <= 1)

\* the reductions of the model: the operand's layout, the axis, the operator,
\* the values of the operand and the order in which the map of accs is walked
ReduceInsts ==
  UNION {UNION {UNION {
    {[kind |-> "reduce", num_warps |-> nw, layout |-> l, axis |-> a, op |-> op,
      pattern |-> pat, gperm |-> gp] :
        op \in {"add"}, pat \in {"ones", "iota"},
        gp \in Permutations(1..Len(red_first(l, a)))}
    : a \in Dims(l.rank)} : l \in RedLayouts(nw)} : nw \in WarpCounts}

\* rank 1 -> visit_reduce1d_inst, else visit_reducend_inst
reduce_stream(k) ==
  IF k.layout.rank = 1 THEN visit_reduce1d_inst(k) ELSE visit_reducend_inst(k)

(***************************************************************************)
(* visit_layout_convert                                                    *)
(***************************************************************************)
\* bounds of the conversion model: elements of the converted tile, and
\* repetitions of the matrix-unit tile along one dimension
MaxCvtTile == 128
MaxMmaReps == 2

\* the matrix-unit layouts of the model: shape = reps * spw * wpt
MmaLayouts(nw) ==
  {[rank |-> 2, shape |-> [d \in Dims(2) |-> reps[d] * spw[d] * wpt[d]],
    order |-> [d \in Dims(2) |-> d], wpt |-> wpt, spw |-> spw] :
      spw \in {[d \in Dims(2) |-> IF d = 0 THEN 16 ELSE 8]},
      wpt \in {f \in [Dims(2) -> 1..nw] : f[0] * f[1] = nw},
      reps \in {f \in [Dims(2) -> 1..MaxMmaReps] : f[0] * f[1] <= MaxMmaReps}}

\* the conversions of the model: in and out are layouts of one shape with
\* extents above 1; kern.layout is the layout of the operand
ConvertInsts ==
  UNION {
    {[kind |-> "cvt", num_warps |-> nw, layout |-> pair[1], out |-> pair[2],
      op |-> "add", pattern |-> "iota"] :
       pair \in {q \in (ScanlineLayoutsOfRank(2, WarpSize * nw) \cup MmaLayouts(nw))
                        \X ScanlineTiles(2, WarpSize * nw, 2 * MaxPerLane) :
                   /\ q[1].shape = q[2].shape
                   /\ \A d \in Dims(2) : q[1].shape[d] > 1
                   /\ IsMma(q[1]) \/ NumElements(q[1]) <= MaxCvtTile}}
    : nw \in {w \in WarpCounts : w <= MaxWarpsNd}}

\* the slot of a tile coordinate: offs[out_ord[0]] + out_ld * offs[out_ord[1]]
cvt_off_bug(shape, out_ord, offs) == offs[out_ord[0]]
cvt_off(shape, out_ord, offs) == offs[out_ord[0]] + (shape[out_ord[0]] * offs[out_ord[1]])

\* the position in an axis of element ii of replica i
cvt_key_bug(i, max_ii, ii) == ii + 1
cvt_key(i, max_ii, ii) == (i * max_ii) + ii + 1

\* one phase of one replica: the accesses of layout l, in the order of the loops
cvt_phase(k, l, ax, n_reps, i, j, what) ==
  LET max_ii == Len(ax[0][0].values) \div n_reps[0]
      max_jj == Len(ax[0][1].values) \div n_reps[1]
      out_ord == k.out.order
  IN [q \in 1..(max_ii * max_jj) |->
        LET ii == (q - 1) \div max_jj
            jj == (q - 1) % max_jj
            addr == [t \in KLanes(k) |->
                       cvt_off(k.out.shape, out_ord,
                               [d \in Dims(2) |-> IF d = 0 THEN ax[t][0].values[ii + 1]
                                                  ELSE ax[t][1].values[jj + 1]])]
            key == [d \in Dims(2) |-> IF d = 0 THEN cvt_key(i, max_ii, ii)
                                       ELSE cvt_key(j, max_jj, jj)]
        IN IF what = "st" THEN St(k, Reg(<<"in", key, 0>>), addr, Always(k))
           ELSE Ld(k, <<"out", key, 0>>, addr, Always(k))]

visit_layout_convert_stream(k) ==
  LET n_reps == [d \in Dims(2) |->
                   k.out.shape[d] \div Max(layout_per_cta(k.layout, d), layout_per_cta(k.out, d))]
  IN Only({
       [prog |->
          Flatten([r \in 1..(n_reps[0] * n_reps[1]) |->
             LET i == (r - 1) \div n_reps[1]
                 j == (r - 1) % n_reps[1]
             IN <<Bar(k)>> \o cvt_phase(k, k.layout, in_ax, n_reps, i, j, "st")
                \o <<Bar(k)>> \o cvt_phase(k, k.out, out_ax, n_reps, i, j, "ld")]),
        outs |-> [q \in 1..(Len(out_ax[0][0].values) * Len(out_ax[0][1].values)) |->
                    <<"out", [d \in Dims(2) |->
                                IF d = 0 THEN ((q - 1) \div Len(out_ax[0][1].values)) + 1
                                ELSE ((q - 1) % Len(out_ax[0][1].values)) + 1], 0>>]]
       : in_ax \in {all_axes(k.layout, KLanes(k))},
         out_ax \in {all_axes(k.out, KLanes(k))}})

(***************************************************************************)
(* The thread-block running a stream                                       *)
(***************************************************************************)
\* the registers a stream names
StreamRegs(p) ==
  {p[n].dst : n \in 1..Len(p)} \cup {p[n].src[2] : n \in {m \in 1..Len(p) : p[m].src[1] = "reg"}}

\* the shared-memory slots a stream addresses
StreamSlots(p, k) ==
  UNION {{p[n].addr[t] : t \in KLanes(k)} : n \in {m \in 1..Len(p) : p[m].op \in {"ld", "st"}}}

\* the registers of one warp when the stream starts: vals_[arg] holds one
\* register per index, and each lane has in it the element at its coordinate
input_regs(k, rs, w) ==
  Only({[r \in rs |->
           [t \in WLanes(w) |->
              IF r[1] = "in" THEN red_input(k, coord_at(k.layout, ax[t], r[2])) ELSE Undef]]
        : ax \in {all_axes(k.layout, WLanes(w))}})

RECURSIVE Xor(_, _)
Xor(a, b) ==
  IF a = 0 THEN b ELSE IF b = 0 THEN a
  ELSE ((a + b) % 2) + (2 * Xor(a \div 2, b \div 2))

\* shfl.sync.bfly: the lane of the same warp the value comes from
bfly_partner(t, i) == ((t \div WarpSize) * WarpSize) + Xor(t % WarpSize, i)

operand(rg, t, o) == IF o[1] = "imm" THEN o[2] ELSE rg[o[2]][t]

\* an instruction that touches only the registers of the warp
IsLocal(I, w) ==
  \/ I.op \in {"mov", "acc", "bfly"}
  \/ I.op \in {"ld", "st"} /\ \A t \in WLanes(w) : ~I.cond[t]

exec_local(k, w, rg, I) ==
  IF I.op \in {"ld", "st"} THEN rg
  ELSE [rg EXCEPT ![I.dst] =
          <<>> @@ [t \in WLanes(w) |->
             IF ~I.cond[t] THEN rg[I.dst][t]
             ELSE CASE I.op = "mov" -> rg[I.src[2]][t]
                    [] I.op = "acc" -> do_acc(k.op, rg[I.dst][t], rg[I.src[2]][t])
                    [] I.op = "bfly" ->
                         do_acc(k.op, rg[I.dst][t],
                                IF I.cond[bfly_partner(t, I.i)]
                                THEN rg[I.dst][bfly_partner(t, I.i)] ELSE Undef)]]

RECURSIVE run_local(_, _, _, _, _)
\* the warp runs on until it meets a barrier or an access to shared memory
run_local(k, p, w, rg, pc) ==
  IF pc > Len(p) \/ ~IsLocal(p[pc], w) THEN [regs |-> rg, pc |-> pc]
  ELSE run_local(k, p, w, exec_local(k, w, rg, p[pc]), pc + 1)

\* the outcomes of the stores of one warp instruction: per slot, the value of
\* one of the lanes that write it
store_outcomes(I, w, rg, mem) ==
  UNION {UNION {
    {(pick @@ [s \in (DOMAIN cand) \ contested |-> Only(cand[s])]) @@ mem :
       pick \in {f \in [contested -> UNION {cand[s] : s \in contested}] :
                   \A s \in contested : f[s] \in cand[s]}}
    : contested \in {{s \in DOMAIN cand : Cardinality(cand[s]) > 1}}}
    : cand \in {<<>> @@ [s \in {I.addr[t] : t \in {u \in WLanes(w) : I.cond[u]}} |->
                           {operand(rg, t, I.src) :
                              t \in {u \in WLanes(w) : I.cond[u] /\ I.addr[u] = s}}]}}

\* after an access the warp runs on to its next access, or arrives at a barrier
after_access(k, p, w, rg, pc, mem, lds, sts) ==
  {[regs |-> s.regs, pc |-> s.pc, mem |-> mem, lds |-> lds, sts |-> sts,
    arrive |-> (s.pc <= Len(p) /\ p[s.pc].op = "bar")] :
     s \in {run_local(k, p, w, rg, pc)}}

\* one step of a warp: register work, at most one access to shared memory,
\* register work again, and the arrival at a barrier if that is what comes next
warp_steps(k, p, w, rg, pc, mem) ==
  UNION {
    IF s.pc > Len(p) \/ p[s.pc].op = "bar"
    THEN after_access(k, p, w, s.regs, s.pc, mem, {}, {})
    ELSE IF p[s.pc].op = "st"
    THEN UNION {after_access(k, p, w, s.regs, s.pc + 1, m2, {},
                             {<<p[s.pc].addr[t], t>> : t \in {u \in WLanes(w) : p[s.pc].cond[u]}})
                  : m2 \in store_outcomes(p[s.pc], w, s.regs, mem)}
    ELSE after_access(k, p, w,
                      [s.regs EXCEPT ![p[s.pc].dst] =
                         <<>> @@ [t \in WLanes(w) |->
                                    IF p[s.pc].cond[t] THEN mem[p[s.pc].addr[t]]
                                    ELSE s.regs[p[s.pc].dst][t]]],
                      s.pc + 1, mem,
                      {<<p[s.pc].addr[t], t>> : t \in {u \in WLanes(w) : p[s.pc].cond[u]}}, {})
    : s \in {run_local(k, p, w, rg, pc)}}

\* the register r of lane t
reg_of(t, r) == regs[t \div WarpSize][r][t]

Done == epc = "run" /\ \A w \in Warps(kern) : wpc[w] > Len(prog)

\* the generator emits the stream; the thread-block is launched on it
launch(k, s) ==
  /\ prog' = s.prog
  /\ outs' = s.outs
  /\ wpc' = [w \in Warps(k) |-> 1]
  /\ waiting' = {}
  /\ regs' = [w \in Warps(k) |-> input_regs(k, StreamRegs(s.prog), w)]
  /\ smem' = [a \in StreamSlots(s.prog, k) |-> Undef]
  /\ ldset' = {} /\ stset' = {}
  /\ epc' = "run"
  /\ UNCHANGED <<kern, notExec>>

visit_reduce_inst ==
  /\ epc = "start"
  /\ kern.kind = "reduce"
  /\ \E s \in {reduce_stream(kern)} : launch(kern, s)

exec_warp ==
  /\ epc = "run"
  /\ \E w \in Warps(kern) \ waiting :
       /\ wpc[w] <= Len(prog)
       /\ \E r \in warp_steps(kern, prog, w, regs[w], wpc[w], smem) :
            /\ regs' = [regs EXCEPT ![w] = r.regs]
            /\ wpc' = [wpc EXCEPT ![w] = r.pc]
            /\ waiting' = IF r.arrive THEN waiting \cup {w} ELSE waiting
            /\ smem' = r.mem
            /\ ldset' = ldset \cup r.lds
            /\ stset' = stset \cup r.sts
  /\ UNCHANGED <<kern, prog, outs, epc, notExec>>

\* bar.sync: every warp has arrived; all pass, and a new interval begins
release_barrier ==
  /\ epc = "run"
  /\ waiting = Warps(kern)
  /\ wpc' = [w \in Warps(kern) |-> wpc[w] + 1]
  /\ waiting' = {}
  /\ ldset' = {} /\ stset' = {}
  /\ UNCHANGED <<kern, prog, outs, regs, smem, epc, notExec>>

InitRed ==
  /\ kern \in ReduceInsts
  /\ prog = <<>> /\ outs = <<>> /\ wpc = <<>> /\ waiting = {}
  /\ regs = <<>> /\ smem = <<>> /\ ldset = {} /\ stset = {}
  /\ epc = "start"

IdleExec ==
  /\ kern = Idle /\ prog = Idle /\ outs = Idle /\ wpc = Idle /\ waiting = Idle
  /\ regs = Idle /\ smem = Idle /\ ldset = Idle /\ stset = Idle /\ epc = Idle

NextRed ==
  \/ visit_reduce_inst
  \/ exec_warp
  \/ release_barrier

visit_layout_convert ==
  /\ epc = "start"
  /\ kern.kind = "cvt"
  /\ \E s \in {visit_layout_convert_stream(kern)} : launch(kern, s)

InitCvt ==
  /\ kern \in ConvertInsts
  /\ prog = <<>> /\ outs = <<>> /\ wpc = <<>> /\ waiting = {}
  /\ regs = <<>> /\ smem = <<>> /\ ldset = {} /\ stset = {}
  /\ epc = "start"

NextCvt ==
  \/ visit_layout_convert
  \/ exec_warp
  \/ release_barrier

(***************************************************************************)
(* Traversal driver and value table: visit_function, visit_basic_block,    *)
(* visit_value, the handlers visit_value dispatches to, finalize_function. *)
(*                                                                         *)
(* An ir::function is a record: its values, for each value its kind, its   *)
(* operands, its scalar type, whether its type is a block type and whether *)
(* its layout is shared; its basic blocks and their instruction lists.     *)
(* The functions drawn have an entry block and a loop block:               *)
(*     a   = argument                                                      *)
(*     k   = constant                                                      *)
(*     x   = splat a                     (block functions)                 *)
(*     p   = phi [k, entry], [w, loop]                                     *)
(*     y   = cast (x | a | p) to the second scalar type                    *)
(*     u   = y + y                                                         *)
(*     w   = p + k                                                         *)
(*     sh1 = copy_to_shared x            (double-buffered and N-stage      *)
(*     ps  = phi [sh1, entry], [sh2, loop]    functions)                   *)
(*     sh2 = copy_to_shared w                                              *)
(* In some functions u is instead an instruction the generator has no      *)
(* lowering rule for.                                                      *)
(* with the instruction lists in every order, so that an instruction is    *)
(* reached first from its list or first as an operand.                     *)
(***************************************************************************)
MaxTravIdx == 4        \* most index tuples a block value materializes

TravTypes == {"fp32", "fp16", "bf16", "fp8"}
NoIdx == <<>>
Range(s) == {s[i] : i \in 1..Len(s)}
Orders(S) ==
  {s \in [1..Cardinality(S) -> S] :
     \A i, j \in 1..Cardinality(S) : i # j => s[i] # s[j]}

\* instructions without a lowering rule: a handler that only throws, or an
\* operator that is in none of the cases of the switch of its handler
NoRuleKinds == {"trans_inst", "copy_from_shared_inst", "binary_operator",
                "icmp_inst", "fcmp_inst", "cast_inst", "reduce_inst"}

IrFunction(blk, n, tin, tout, src, buf, bad, eord, lord) ==
  LET base == IF blk THEN "x" ELSE "a"
      vs == {"a", "k", "p", "y", "u", "w"}
              \cup (IF blk THEN {"x"} ELSE {})
              \cup (IF buf # "none" THEN {"sh1", "ps", "sh2"} ELSE {})
  IN [values |-> vs,
      kind |-> [v \in vs |->
                 CASE v = "a" -> "argument"
                   [] v = "k" -> IF blk THEN "undef_value" ELSE "constant_fp"
                   [] v = "x" -> "splat_inst"
                   [] v \in {"p", "ps"} -> "phi_node"
                   [] v = "y" -> "cast_inst"
                   [] v = "u" /\ bad # "none" -> bad
                   [] v \in {"u", "w"} -> "binary_operator"
                   [] OTHER -> "copy_to_shared_inst"],
      ops |-> [v \in vs |->
                CASE v = "x" -> <<"a">>
                  [] v = "p" -> <<"k", "w">>
                  [] v = "y" -> <<IF src = "phi" THEN "p" ELSE base>>
                  [] v = "u" -> IF bad \in {"none", "binary_operator", "icmp_inst",
                                             "fcmp_inst"}
                                THEN <<"y", "y">> ELSE <<"y">>
                  [] v = "w" -> <<"p", "k">>
                  [] v = "sh1" -> <<"x">>
                  [] v = "sh2" -> <<"w">>
                  [] v = "ps" -> <<"sh1", "sh2">>
                  [] OTHER -> <<>>],
      ty |-> [v \in vs |-> IF v \in {"y", "u"} THEN tout ELSE tin],
      block_ty |-> [v \in vs |-> blk /\ v # "a"],
      to_shared |-> [v \in vs |-> v \in {"sh1", "ps", "sh2"}],
      known_op |-> [v \in vs |-> v # "u" \/ bad = "none"],
      zeros |-> {},
      double_buffer |-> buf = "double",
      n_buffer |-> buf = "N",
      nidx |-> n,
      blocks |-> <<"entry", "loop">>,
      insts |-> [b \in {"entry", "loop"} |-> IF b = "entry" THEN eord ELSE lord],
      incoming |-> <<"entry", "loop">>]

IrFunctions ==
  UNION {UNION {{IrFunction(FALSE, 1, tin, tout, src, "none", "none", <<>>, lord) :
                   lord \in Orders({"p", "y", "u", "w"})} :
                tin \in TravTypes \ {"fp8", tout}, src \in {"phi", "base"}} :
         tout \in TravTypes \ {"fp8"}}
  \cup
  UNION {UNION {{IrFunction(TRUE, n, tin, tout, src, "none", "none", <<"x">>, lord) :
                   lord \in Orders({"p", "y", "u", "w"})} :
                tin \in TravTypes \ {tout}, src \in {"phi", "base"},
                n \in {1, MaxTravIdx}} :
         tout \in TravTypes}
  \cup
  UNION {UNION {{IrFunction(TRUE, n, tin, tout, src, "double", "none", eord,
                            <<"ps">> \o lord \o <<"sh2">>) :
                   lord \in Orders({"p", "y", "u", "w"})} :
                tin \in TravTypes \ {tout}, src \in {"phi", "base"},
                n \in {1, MaxTravIdx}, eord \in Orders({"x", "sh1"})} :
         tout \in TravTypes}
  \cup
  UNION {{IrFunction(TRUE, n, "fp32", "fp16", src, "N", "none", eord,
                     <<"ps">> \o lord \o <<"sh2">>) :
            lord \in Orders({"p", "y", "u", "w"})} :
         src \in {"phi", "base"}, n \in {1, MaxTravIdx},
         eord \in Orders({"x", "sh1"})}
  \cup
  UNION {{IrFunction(TRUE, 1, "fp32", "fp16", src, "none", bad, <<"x">>, lord) :
            lord \in Orders({"p", "y", "u", "w"})} :
         src \in {"phi", "base"}, bad \in NoRuleKinds}

is_instruction(f, v) ==
  f.kind[v] \notin {"argument", "undef_value", "constant_fp"}
is_constant(f, v) == f.kind[v] \in {"undef_value", "constant_fp"}
is_user(f, v) == f.kind[v] # "argument"
is_phi(f, v) == f.kind[v] = "phi_node"

\* llvm::Value* held by the tables; a default-constructed entry is null
LValue(t, v, idx) == [t |-> t, v |-> v, idx |-> idx]
NullValue == LValue("null", "", NoIdx)
Poison == LValue("poison", "", NoIdx)

\* std::map: an empty map, m[k] = x, the value m[k] yields, the entry it leaves
EmptyMap == [j \in {} |-> NullValue]
Put(m, k, x) == (k :> x) @@ m
map_at(m, k) == IF k \in DOMAIN m THEN m[k] ELSE NullValue
touch(m, ks) == m @@ [j \in ks |-> NullValue]
Absent == "absent"

\* an instruction of an llvm::BasicBlock
LInst(v, idx, op) == [v |-> v, idx |-> idx, op |-> op]
first_non_phi(s) ==
  IF \E i \in 1..Len(s) : s[i].op # "phi"
  THEN CHOOSE i \in 1..Len(s) :
         s[i].op # "phi" /\ \A j \in 1..(i - 1) : s[j].op = "phi"
  ELSE 0

\* the builder inserts at the end of the block or before its first non-phi
emit(cd, ipt, items) ==
  [cd EXCEPT ![ipt.bb] =
     IF ipt.at = "end" \/ first_non_phi(@) = 0
     THEN @ \o items
     ELSE SubSeq(@, 1, first_non_phi(@) - 1) \o items
            \o SubSeq(@, first_non_phi(@), Len(@))]

\* idxs_[v] as init_idx leaves it: {} for a value that is not a block, nothing
\* for a shared layout, the index tuples of the layout otherwise
block_idxs(f, v) ==
  IF ~f.block_ty[v] THEN <<NoIdx>>
  ELSE IF f.to_shared[v] THEN <<>>
  ELSE [i \in 1..f.nidx |-> <<i>>]

Outcome(st, T, cd, ph) == [status |-> st, vals |-> T, code |-> cd, incs |-> ph]

\* A handler that, for the r-th group of `step` indices of x in turn, reads
\* vals_[op][op_idxs[i]] of every operand (an absent entry is created null)
\* and writes vals_[x][x_idxs[i]] when `writes`.  Building an instruction on a
\* null operand dereferences it: the compilation crashes there, or goes on
\* with an instruction of no meaning.
lower_each(f, x, T, cd, ph, ipt, ix, xs, os, step, writes, op) ==
  LET ops == Range(f.ops[x])
      n == Len(os)
      bad == {i \in 1..n : \E o \in ops : map_at(T[o], os[i]) = NullValue}
      done(m, tok) ==
        [v \in DOMAIN T |->
           IF v = x /\ writes
           THEN ([j \in {xs[i] : i \in 1..m} |->
                    IF \E i \in bad : xs[i] = j THEN tok ELSE LValue("inst", x, j)]
                  @@ (IF v \in ops THEN touch(T[v], {os[i] : i \in 1..m}) ELSE T[v]))
           ELSE IF v \in ops THEN touch(T[v], {os[i] : i \in 1..m})
           ELSE T[v]]
      items(m) == [i \in 1..m |-> LInst(x, xs[i], op)]
  IN IF bad = {}
     THEN {Outcome("ok", done(n, Poison), emit(cd, ipt, items(n)), ph)}
     ELSE LET b == CHOOSE i \in bad : \A j \in bad : i <= j
              g == ((b - 1) \div step) * step
              \* the group of b is read, nothing of it is written
              crashed == [v \in DOMAIN T |->
                            IF v \in ops
                            THEN touch(done(g, Poison)[v],
                                       {os[i] : i \in 1..Min(g + step, n)})
                            ELSE done(g, Poison)[v]]
          IN {Outcome("crash", crashed, emit(cd, ipt, items(g)), ph),
              Outcome("ok", done(n, Poison), emit(cd, ipt, items(n)), ph)}

visit_phi_node(f, x, T, cd, ph, ipt, ix) ==
  {Outcome("ok",
           [T EXCEPT ![x] = [j \in Range(ix[x]) |-> LValue("phi", x, j)] @@ @],
           emit(cd, ipt, [i \in 1..Len(ix[x]) |-> LInst(x, ix[x][i], "phi")]),
           [ph EXCEPT ![x] = [j \in Range(ix[x]) |-> <<>>] @@ @])}

\* the default case of the switch over the operator, met inside the loop over
\* the indices once the operands of the first index are read
unreachable_switch(f, x, T, cd, ph, ix) ==
  IF ix[x] = <<>> THEN {Outcome("ok", T, cd, ph)}
  ELSE {Outcome("throw",
                [v \in DOMAIN T |->
                   IF v \in Range(f.ops[x]) THEN touch(T[v], {ix[x][1]}) ELSE T[v]],
                cd, ph)}

visit_binary_operator(f, x, T, cd, ph, ipt, ix) ==
  IF ~f.known_op[x] THEN unreachable_switch(f, x, T, cd, ph, ix)
  ELSE lower_each(f, x, T, cd, ph, ipt, ix, ix[x], ix[x], 1, TRUE, "inst")

visit_icmp_inst(f, x, T, cd, ph, ipt, ix) ==
  IF ~f.known_op[x] THEN unreachable_switch(f, x, T, cd, ph, ix)
  ELSE lower_each(f, x, T, cd, ph, ipt, ix, ix[x], ix[x], 1, TRUE, "inst")

visit_fcmp_inst(f, x, T, cd, ph, ipt, ix) ==
  IF ~f.known_op[x] THEN unreachable_switch(f, x, T, cd, ph, ix)
  ELSE lower_each(f, x, T, cd, ph, ipt, ix, ix[x], ix[x], 1, TRUE, "inst")

visit_trans_inst_bug(f, x, T, cd, ph, ipt, ix) == {Outcome("ok", T, cd, ph)}
visit_trans_inst(f, x, T, cd, ph, ipt, ix) == {Outcome("throw", T, cd, ph)}

visit_copy_from_shared_inst(f, x, T, cd, ph, ipt, ix) == {Outcome("throw", T, cd, ph)}

\* visit_reduce_inst up to the choice of the neutral element: an operator in
\* none of the cases throws there; the stream of a supported one is SpecRed's
reduce_neutral(f, x, T, cd, ph, ipt, ix) ==
  IF ~f.known_op[x] THEN {Outcome("throw", T, cd, ph)}
  ELSE lower_each(f, x, T, cd, ph, ipt, ix, ix[x], ix[x], 1, TRUE, "reduce")

\* fp32x4_to_fp8x4 accepts a ConstantFP of value 0 only
is_zero_ConstantFP(f, val) ==
  val.t = "const" /\ f.kind[val.v] = "constant_fp" /\ val.v \in f.zeros

visit_cast_inst(f, x, T, cd, ph, ipt, ix) ==
  LET op == f.ops[x][1]
      ret_sca_ty == f.ty[x]
      op_sca_ty == f.ty[op]
      each(step) ==
        lower_each(f, x, T, cd, ph, ipt, ix, ix[x], ix[op], step, TRUE, "inst")
  IN IF op \notin DOMAIN ix THEN {Outcome("throw", T, cd, ph)}
     ELSE IF ret_sca_ty = "fp8" \/ op_sca_ty = "fp8"
     THEN IF f.nidx % 4 # 0 THEN {Outcome("throw", T, cd, ph)}
          ELSE IF op_sca_ty = "fp32" /\ ret_sca_ty = "fp8"
          THEN IF \A i \in 1..Len(ix[op]) :
                    is_zero_ConstantFP(f, map_at(T[op], ix[op][i]))
               THEN each(4)
               ELSE {Outcome("throw", T, cd, ph)}
          ELSE IF op_sca_ty = "fp8" /\ ret_sca_ty = "fp16"
          THEN each(4)
          ELSE {Outcome("throw", T, cd, ph)}
     ELSE IF ret_sca_ty = "bf16" \/ op_sca_ty = "bf16"
     THEN IF op_sca_ty = "fp32" \/ ret_sca_ty = "fp32"
          THEN each(1)
          ELSE {Outcome("ok", T, cd, ph)}
     ELSE IF ~f.known_op[x] THEN unreachable_switch(f, x, T, cd, ph, ix)
     ELSE each(1)

visit_splat_inst(f, x, T, cd, ph, ipt, ix) ==
  LET op == f.ops[x][1]
      T1 == [T EXCEPT ![op] = touch(@, {NoIdx})]
  IN {Outcome("ok",
              [T1 EXCEPT ![x] = [j \in Range(ix[x]) |-> map_at(T[op], NoIdx)] @@ @],
              cd, ph)}

visit_constant(f, x, T, cd, ph, ipt, ix) ==
  {Outcome("ok",
           [T EXCEPT ![x] = [j \in Range(ix[x]) |-> LValue("const", x, NoIdx)] @@ @],
           cd, ph)}

\* in_vec = out_vec = 1 and one swizzling phase: one pointer, computed in the
\* entry block, and one store per index
visit_copy_to_shared_inst(f, x, T, cd, ph, ipt, ix) ==
  LET arg == f.ops[x][1]
      first_bb == [bb |-> f.blocks[1], at |-> "end"]
  IN IF arg \notin DOMAIN ix THEN {Outcome("throw", T, cd, ph)}
     ELSE IF Len(ix[arg]) = 0 THEN {Outcome("ok", T, cd, ph)}
     ELSE {[r EXCEPT !.code =
              IF r.status = "crash" THEN cd
              ELSE emit(emit(cd, first_bb, <<LInst(x, NoIdx, "off")>>), ipt,
                        <<LInst(x, NoIdx, "gep")>>
                          \o [i \in 1..Len(ix[arg]) |-> LInst(x, ix[arg][i], "store")])] :
             r \in lower_each(f, x, T, cd, ph, ipt, ix, ix[arg], ix[arg], 1,
                              FALSE, "store")}

\* usr->accept(this)
accept(f, v, T, cd, ph, ipt, ix) ==
  CASE f.kind[v] = "phi_node" -> visit_phi_node(f, v, T, cd, ph, ipt, ix)
    [] f.kind[v] = "binary_operator" -> visit_binary_operator(f, v, T, cd, ph, ipt, ix)
    [] f.kind[v] = "cast_inst" -> visit_cast_inst(f, v, T, cd, ph, ipt, ix)
    [] f.kind[v] = "splat_inst" -> visit_splat_inst(f, v, T, cd, ph, ipt, ix)
    [] f.kind[v] = "copy_to_shared_inst" ->
         visit_copy_to_shared_inst(f, v, T, cd, ph, ipt, ix)
    [] f.kind[v] = "icmp_inst" -> visit_icmp_inst(f, v, T, cd, ph, ipt, ix)
    [] f.kind[v] = "fcmp_inst" -> visit_fcmp_inst(f, v, T, cd, ph, ipt, ix)
    [] f.kind[v] = "trans_inst" -> visit_trans_inst(f, v, T, cd, ph, ipt, ix)
    [] f.kind[v] = "copy_from_shared_inst" ->
         visit_copy_from_shared_inst(f, v, T, cd, ph, ipt, ix)
    [] f.kind[v] = "reduce_inst" -> reduce_neutral(f, v, T, cd, ph, ipt, ix)
    [] OTHER -> visit_constant(f, v, T, cd, ph, ipt, ix)

already_seen_bug(s, v) == FALSE
already_seen(s, v) == v \in s

Frame(v, k, current) == [v |-> v, k |-> k, current |-> current]
Top == stack[Len(stack)]
Pop == SubSeq(stack, 1, Len(stack) - 1)

\* the phis of the function in the order finalize_function meets them
phi_list(f) ==
  LET of(b) == SelectSeq(f.insts[b], LAMBDA v : is_phi(f, v))
  IN of(f.blocks[1]) \o of(f.blocks[2])

\* finalize_phi_node for the phis xs in turn: <<vals_, incoming lists>>
RECURSIVE finalize_phi_nodes(_, _, _, _, _, _, _)
finalize_phi_nodes(f, xs, T, ph, ix, sh, bb) ==
  IF xs = <<>> THEN <<T, ph>>
  ELSE LET x == Head(xs)
           keys == Range(ix[x])
           inc(n, idx) == [val |-> map_at(T[f.ops[x][n]], idx),
                           bb |-> bb[f.incoming[n]]]
           T1 == [v \in DOMAIN T |->
                    IF v = x \/ v \in Range(f.ops[x]) THEN touch(T[v], keys)
                    ELSE T[v]]
           ph1 == [ph EXCEPT ![x] =
                     [idx \in keys |->
                        map_at(ph[x], idx) \o [n \in 1..Len(f.ops[x]) |-> inc(n, idx)]]
                       @@ @]
       IN IF x \in DOMAIN sh
          THEN finalize_phi_nodes(f, Tail(xs), T, ph, ix, sh, bb)
          ELSE finalize_phi_nodes(f, Tail(xs), T1, ph1, ix, sh, bb)

\* finalize_shared_layout of the double-buffered layout: the incoming values
\* of the pointer phi and of the offset phi
double_buffer_incs(f, sh, bb) ==
  IF ~f.double_buffer THEN <<>>
  ELSE [n \in 1..Len(f.ops["ps"]) |->
          [ptr |-> map_at(sh, f.ops["ps"][n]),
           off |-> IF f.ops["ps"][n] = "sh2" THEN "neg" ELSE "half",
           bb |-> bb[f.incoming[n]]]]

\* the N-stage branch of finalize_shared_layout, as the traversal sees it.
\* finalize_smem_idx splits the block of the phi before its terminator
\* (llvm::SplitBlockAndInsertIfThenElse): the block keeps what precedes, the
\* new tail block holds _ret and the terminator.
split_blocks(name) ==
  IF name = "read_smem_idx"
  THEN [then |-> "then_read", else |-> "else_read", tail |-> "ret_read"]
  ELSE [then |-> "then_write", else |-> "else_write", tail |-> "ret_write"]

\* BasicBlock::splitBasicBlock: the phis of the successors of the tail that
\* name the split block name the tail from then on
replaceSuccessorsPhiUsesWith(edges, old, new) ==
  [i \in DOMAIN edges |->
     IF edges[i].bb = old THEN [edges[i] EXCEPT !.bb = new] ELSE edges[i]]

PhiEdge(phi, val, bb) == [phi |-> phi, val |-> val, bb |-> bb]

\* bbs_.at(n_buffer->phi->get_parent()) = builder_->GetInsertBlock()
update_bbs_bug(bbs, parent, blk) == bbs
update_bbs(bbs, parent, blk) == [bbs EXCEPT ![parent] = blk]

\* finalize_smem_idx(smem_idx, init_stage) on [incs, bbs, code]
smem_idx_split(f, st, name, init_stage) ==
  LET parent == "loop"
      head == st.bbs[parent]
      nb == split_blocks(name)
      bbs1 == update_bbs(st.bbs, parent, nb.tail)
      code1 == (nb.then :> <<>>)
                 @@ (nb.else :> <<LInst("layout", NoIdx, "add")>>)
                 @@ (nb.tail :> <<LInst("layout", NoIdx, "phi")>>)
                 @@ [st.code EXCEPT ![head] = @ \o <<LInst("layout", NoIdx, "icmp")>>]
  IN [incs |-> replaceSuccessorsPhiUsesWith(st.incs, head, nb.tail)
                 \o <<PhiEdge(name, init_stage, bbs1[f.incoming[1]]),
                      PhiEdge(name, "_ret", bbs1[f.incoming[2]])>>,
      bbs |-> bbs1,
      code |-> code1]

n_buffer_incs(f, bb, cd) ==
  LET s1 == smem_idx_split(f, [incs |-> <<>>, bbs |-> bb, code |-> cd],
                           "read_smem_idx", "i32(2)")
      s2 == smem_idx_split(f, s1, "write_smem_idx", "i32(num_stages-1)")
      header == s2.bbs[f.incoming[1]]
      loop == s2.bbs[f.incoming[2]]
  IN [incs |-> s2.incs
                 \o <<PhiEdge("shared_ptr", "shared_pre_ptr", header),
                      PhiEdge("shared_ptr", "shared_next_ptr", loop),
                      PhiEdge("shared_next_ptr", "next_ptr_header", header),
                      PhiEdge("shared_next_ptr", "next_ptr", loop)>>,
      bbs |-> s2.bbs,
      \* next_ptr_header is a constant expression; lds_offset and next_ptr
      \* are computed before the terminator of the block the builder is in
      code |-> [s2.code EXCEPT
                  ![loop] = @ \o <<LInst("layout", NoIdx, "mul"),
                                   LInst("layout", NoIdx, "gep")>>]]

\* finalize_function, first loop: finalize_shared_layout of the shared layout
finalize_layouts(f, sh, bb, cd) ==
  IF f.n_buffer THEN n_buffer_incs(f, bb, cd)
  ELSE [incs |-> double_buffer_incs(f, sh, bb), bbs |-> bb,
        code |-> IF f.double_buffer
                 THEN [cd EXCEPT ![bb[f.incoming[2]]] =
                         @ \o <<LInst("layout", NoIdx, "neg")>>]
                 ELSE cd]

\* for(ir::basic_block *block: fn->blocks()): blocks still to visit
blocks_left(f, b) == b <= Len(f.blocks)

visit_function ==
  /\ tpc = "start"
  /\ vals_' = [v \in fn.values |->
                 IF fn.kind[v] = "argument"
                 THEN Put(EmptyMap, NoIdx, LValue("arg", v, NoIdx))
                 ELSE EmptyMap]
  /\ bbs_' = [b \in Range(fn.blocks) |-> b]
  /\ ip' = [bb |-> fn.blocks[1], at |-> "end"]
     \* visit_layout: the axes of the distributed layout in the entry block,
     \* the pointer and offset phis of the double buffer in the block of its phi
  /\ code' = [b \in Range(fn.blocks) |->
                IF b = fn.blocks[1]
                THEN IF \E v \in fn.values : fn.block_ty[v]
                     THEN <<LInst("layout", NoIdx, "axes")>> ELSE <<>>
                ELSE IF fn.double_buffer
                THEN <<LInst("layout", NoIdx, "phi"), LInst("layout", NoIdx, "phi"),
                       LInst("layout", NoIdx, "gep")>>
                ELSE IF fn.n_buffer
                THEN [i \in 1..4 |-> LInst("layout", NoIdx, "phi")]
                ELSE <<>>]
  /\ tpc' = "blocks"
  /\ bcur' = 1
  /\ icur' = 0
  /\ UNCHANGED <<fn, seen_, idxs_, shmems_, shoffs_, phi_incs, shinc, stack, calls, notTrav>>

visit_basic_block ==
  /\ tpc = "blocks" /\ stack = <<>> /\ icur = 0
  /\ blocks_left(fn, bcur)
  /\ ip' = [bb |-> bbs_[fn.blocks[bcur]], at |-> "end"]
  /\ icur' = 1
  /\ UNCHANGED <<fn, tpc, bcur, seen_, vals_, idxs_, shmems_, shoffs_, bbs_, code,
                 phi_incs, shinc, stack, calls, notTrav>>

visit_basic_block_inst ==
  /\ tpc = "blocks" /\ stack = <<>> /\ icur >= 1
  /\ icur <= Len(fn.insts[fn.blocks[bcur]])
  /\ stack' = <<Frame(fn.insts[fn.blocks[bcur]][icur], 0, Absent)>>
  /\ icur' = icur + 1
  /\ UNCHANGED <<fn, tpc, bcur, seen_, vals_, idxs_, shmems_, shoffs_, bbs_, ip,
                 code, phi_incs, shinc, calls, notTrav>>

visit_basic_block_end ==
  /\ tpc = "blocks" /\ stack = <<>> /\ icur >= 1
  /\ icur > Len(fn.insts[fn.blocks[bcur]])
  /\ bbs_' = [bbs_ EXCEPT ![fn.blocks[bcur]] = ip.bb]
  /\ bcur' = bcur + 1
  /\ icur' = 0
  /\ UNCHANGED <<fn, tpc, seen_, vals_, idxs_, shmems_, shoffs_, ip, code, phi_incs,
                 shinc, stack, calls, notTrav>>

\* visit_value up to the operand loop
visit_value ==
  /\ tpc = "blocks" /\ stack # <<>> /\ Top.k = 0
  /\ LET v == Top.v
     IN IF already_seen(seen_, v)
        THEN /\ stack' = Pop
             /\ UNCHANGED <<seen_, shmems_, shoffs_, code>>
        ELSE /\ seen_' = seen_ \cup {v}
             /\ IF fn.block_ty[v] /\ fn.to_shared[v]
                THEN /\ shmems_' =
                          Put(shmems_, v,
                              IF fn.n_buffer
                              THEN IF v = "sh2" THEN "gep_pre_ptr_write_smem_idx"
                                   ELSE IF v = "sh1" THEN "gep_pre_ptr_firsts_idx"
                                   ELSE "shared_ptr"
                              ELSE IF v = "sh2" THEN "shared_next_ptr"
                              ELSE IF v = "sh1" THEN "shared_pre_ptr"
                              ELSE "shared_ptr")
                     /\ shoffs_' = Put(shoffs_, v,
                                       IF v = "ps" /\ fn.double_buffer
                                       THEN "shared_off" ELSE "null")
                        \* the pointer of the latch of an N-stage buffer is
                        \* computed where the builder stands
                     /\ code' = IF fn.n_buffer /\ v = "sh2"
                                THEN emit(code, ip, <<LInst(v, NoIdx, "mul"),
                                                      LInst(v, NoIdx, "gep")>>)
                                ELSE code
                ELSE UNCHANGED <<shmems_, shoffs_, code>>
             /\ stack' = Pop \o <<Frame(v, 1, ip.bb)>>
  /\ UNCHANGED <<fn, tpc, bcur, icur, vals_, idxs_, bbs_, ip, phi_incs, shinc,
                 calls, notTrav>>

\* one turn of the operand loop
visit_value_operand ==
  /\ tpc = "blocks" /\ stack # <<>> /\ Top.k >= 1
  /\ Top.k <= Len(fn.ops[Top.v])
  /\ LET v == Top.v
         op == fn.ops[v][Top.k]
         next == Pop \o <<Frame(v, Top.k + 1, Top.current)>>
     IN stack' = IF is_constant(fn, op) \/ ~is_phi(fn, v)
                 THEN next \o <<Frame(op, 0, Absent)>>
                 ELSE next
  /\ UNCHANGED <<fn, tpc, bcur, icur, seen_, vals_, idxs_, shmems_, shoffs_, bbs_,
                 ip, code, phi_incs, shinc, calls, notTrav>>

\* visit_value from init_idx to its return
visit_value_accept ==
  /\ tpc = "blocks" /\ stack # <<>> /\ Top.k >= 1
  /\ Top.k > Len(fn.ops[Top.v])
  /\ LET v == Top.v
         current == Top.current
         ix == Put(idxs_, v, block_idxs(fn, v))
         ipt == IF is_phi(fn, v) /\ first_non_phi(code[current]) # 0
                THEN [bb |-> current, at |-> "first_non_phi"]
                ELSE [bb |-> current, at |-> "end"]
     IN /\ idxs_' = ix
        /\ \E r \in IF is_user(fn, v)
                    THEN accept(fn, v, vals_, code, phi_incs, ipt, ix)
                    ELSE {Outcome("ok", vals_, code, phi_incs)} :
             /\ vals_' = r.vals
             /\ code' = r.code
             /\ phi_incs' = r.incs
             /\ tpc' = IF r.status = "ok" THEN tpc ELSE r.status
             /\ stack' = IF r.status = "ok" THEN Pop ELSE <<>>
        /\ ip' = [bb |-> current, at |-> "end"]
        /\ calls' = IF is_user(fn, v) THEN [calls EXCEPT ![v] = @ + 1] ELSE calls
  /\ UNCHANGED <<fn, bcur, icur, seen_, shmems_, shoffs_, bbs_, shinc, notTrav>>

finalize_function ==
  /\ tpc = "blocks" /\ stack = <<>> /\ icur = 0
  /\ ~blocks_left(fn, bcur)
  /\ \E s \in {finalize_layouts(fn, shmems_, bbs_, code)} :
       /\ shinc' = s.incs
       /\ bbs_' = s.bbs
       /\ code' = s.code
       /\ \E r \in {finalize_phi_nodes(fn, phi_list(fn), vals_, phi_incs, idxs_,
                                        shmems_, s.bbs)} :
            /\ vals_' = r[1]
            /\ phi_incs' = r[2]
  /\ tpc' = "done"
  /\ UNCHANGED <<fn, bcur, icur, seen_, idxs_, shmems_, shoffs_, ip, stack, calls,
                 notTrav>>

InitTrav ==
  /\ fn \in IrFunctions
  /\ tpc = "start"
  /\ bcur = 0 /\ icur = 0
  /\ seen_ = {}
  /\ vals_ = [v \in fn.values |-> EmptyMap]
  /\ idxs_ = EmptyMap
  /\ shmems_ = EmptyMap /\ shoffs_ = EmptyMap
  /\ bbs_ = EmptyMap
  /\ ip = [bb |-> Absent, at |-> "end"]
  /\ code = [b \in Range(fn.blocks) |-> <<>>]
  /\ phi_incs = [v \in fn.values |-> EmptyMap]
  /\ shinc = <<>>
  /\ stack = <<>>
  /\ calls = [v \in fn.values |-> 0]

IdleTrav ==
  /\ fn = Idle /\ tpc = Idle /\ bcur = Idle /\ icur = Idle /\ seen_ = Idle
  /\ vals_ = Idle /\ idxs_ = Idle /\ shmems_ = Idle /\ shoffs_ = Idle
  /\ bbs_ = Idle /\ ip = Idle /\ code = Idle /\ phi_incs = Idle /\ shinc = Idle
  /\ stack = Idle /\ calls = Idle

NextTrav ==
  \/ visit_function
  \/ visit_basic_block
  \/ visit_basic_block_inst
  \/ visit_basic_block_end
  \/ visit_value
  \/ visit_value_operand
  \/ visit_value_accept
  \/ finalize_function

(***************************************************************************)
(* 8-bit float casts: the fp8 branch of visit_cast_inst, fp32x4_to_fp8x4,  *)
(* fp8x4_to_fp16x4 and fp8x4_to_fp32x4                                     *)
(***************************************************************************)
\* bounds of the cast model
MaxContig == 8
MaxCastReps == 2

\* An llvm::Value: a constant or a value only known when the kernel runs, with
\* the bits the lane at hand holds for it.  A 32-bit float is <<sign, exponent,
\* mantissa>>, an 8-bit float a byte, a 16-bit float a 16-bit integer.
Value(is_const, ty, bits) == [const |-> is_const, ty |-> ty, bits |-> bits]

PlusZero == <<0, 0, 0>>
MinusZero == <<1, 0, 0>>

getInt8_bug(b) == Value(TRUE, "i8", 128)
getInt8(b) == Value(TRUE, "i8", b)

\* dyn_cast<ConstantFP>(v) and ci->getValue().convertToFloat() == 0
is_ConstantFP_zero(v) ==
  v.const /\ v.ty = "fp32" /\ v.bits[2] = 0 /\ v.bits[3] = 0

fp32x4_to_fp8x4(in) ==
  IF \A i \in 1..4 : is_ConstantFP_zero(in[i])
  THEN <<"ok", [i \in 1..4 |-> getInt8(0)]>>
  ELSE <<"unsupported cast", <<>>>>

\* a 32-bit register is its four bytes, the lowest first
Bytes(b0, b1, b2, b3) == <<b0, b1, b2, b3>>

\* prmt.b32 d, a, b, c (default mode): byte i of d is the byte of {b, a} that
\* nibble i of c selects
prmt(a, b, c) ==
  [i \in 1..4 |->
     LET sel == (c \div (16 ^ (i - 1))) % 16
     IN IF sel < 4 THEN a[sel + 1] ELSE b[sel - 3]]

RECURSIVE lop3_bits(_, _, _, _, _)
\* lop3 on the n low bits of x, y, z: bit = immLut[(x << 2) | (y << 1) | z]
lop3_bits(x, y, z, lut, n) ==
  IF n = 0 THEN 0
  ELSE ((lut \div (2 ^ ((4 * (x % 2)) + (2 * (y % 2)) + (z % 2)))) % 2)
         + (2 * lop3_bits(x \div 2, y \div 2, z \div 2, lut, n - 1))

lop3(a, b, c, lut) == [i \in 1..4 |-> lop3_bits(a[i], b[i], c[i], lut, 8)]

\* shr.b32 d, a, 1
shr1(a) ==
  [i \in 1..4 |-> (a[i] \div 2) + (IF i < 4 THEN (a[i + 1] % 2) * 128 ELSE 0)]

\* extract_elt(<2 x half>, k) of a 32-bit register
half_elt(w, k) == w[(2 * k) + 1] + (256 * w[(2 * k) + 2])

fp8x4_to_fp16x4(in) ==
  LET zero == Bytes(0, 0, 0, 0)
      packed_in == Bytes(in[1].bits, in[2].bits, in[3].bits, in[4].bits)
      a0 == prmt(zero, packed_in, 20800)                       \* 0x5140
      a1 == prmt(zero, packed_in, 29538)                       \* 0x7362
      b0 == shr1(lop3(a0, Bytes(255, 127, 255, 127), zero, 192))   \* 0x7fff7fff, 0xc0
      b1 == shr1(lop3(a1, Bytes(255, 127, 255, 127), zero, 192))
      r0 == lop3(b0, Bytes(0, 128, 0, 128), a0, 248)           \* 0x80008000, 0xf8
      r1 == lop3(b1, Bytes(0, 128, 0, 128), a1, 248)
  IN <<"ok", <<Value(FALSE, "fp16", half_elt(r0, 0)), Value(FALSE, "fp16", half_elt(r0, 1)),
               Value(FALSE, "fp16", half_elt(r1, 0)), Value(FALSE, "fp16", half_elt(r1, 1))>>>>

\* position of the highest set bit of m > 0
HighBit(m) == CHOOSE p \in 0..15 : (2 ^ p) <= m /\ m < (2 ^ (p + 1))

\* cast(FPExt, v, f32_ty) of a 16-bit float
FPExt(v) ==
  LET s == v.bits \div 32768
      e == (v.bits \div 1024) % 32
      m == v.bits % 1024
  IN Value(v.const, "fp32",
           IF e = 0 /\ m = 0 THEN <<s, 0, 0>>
           ELSE IF e = 0 THEN <<s, HighBit(m) + 103, (m - (2 ^ HighBit(m))) * (2 ^ (23 - HighBit(m)))>>
           ELSE IF e = 31 THEN <<s, 255, m * 8192>>
           ELSE <<s, e + 112, m * 8192>>)

fp8x4_to_fp32x4(in) ==
  LET ret == fp8x4_to_fp16x4(in)[2]
  IN <<"ok", [i \in 1..4 |-> FPExt(ret[i])]>>

\* visit_cast_inst, the lambda cvt of the fp8 branch
cast_cvt(c, in) ==
  IF c.op_sca_ty = "fp32" /\ c.ret_sca_ty = "fp8" THEN fp32x4_to_fp8x4(in)
  ELSE IF c.op_sca_ty = "fp8" /\ c.ret_sca_ty = "fp16" THEN fp8x4_to_fp16x4(in)
  ELSE <<"unsupported conversion", <<>>>>

cast_group(c, i) == [k \in 1..4 |-> c.op_vals[i + k - 1]]

RECURSIVE cast_loop(_, _, _)
\* visit_cast_inst, the loop over x_idxs in steps of 4 (i counts from 1): the
\* right-hand side runs first, so a throw of cvt leaves the group unwritten
cast_loop(c, i, vals) ==
  IF i > Len(c.op_vals) THEN <<"done", vals>>
  ELSE LET r == cast_cvt(c, cast_group(c, i))
       IN IF r[1] # "ok" THEN <<"throw", vals>>
          ELSE cast_loop(c, i + 4, vals \o r[2])

\* visit_cast_inst when ret_sca_ty or op_sca_ty is fp8
visit_cast_inst_fp8 ==
  /\ cast_pc = "start"
  /\ IF cast.contiguous % 4 # 0
     THEN cast_pc' = "throw" /\ cast_vals' = cast_vals
     ELSE \E r \in {cast_loop(cast, 1, <<>>)} : cast_pc' = r[1] /\ cast_vals' = r[2]
  /\ UNCHANGED <<cast, cast_back, notFp8>>

\* the 8-bit floats a cast has written are converted back, group by group
convert_back ==
  /\ cast_pc \in {"done", "throw"}
  /\ cast.ret_sca_ty = "fp8"
  /\ cast_vals # <<>>
  /\ cast_back' = [i \in 1..Len(cast_vals) |->
                     fp8x4_to_fp32x4([k \in 1..4 |->
                        cast_vals[(4 * ((i - 1) \div 4)) + k]])[2][((i - 1) % 4) + 1]]
  /\ cast_pc' = "back"
  /\ UNCHANGED <<cast, cast_vals, notFp8>>

\* the groups of operand entries the model draws from
CastGroups(ty) ==
  CASE ty = "fp32" ->
         LET Z == Value(TRUE, "fp32", PlusZero)
             N == Value(TRUE, "fp32", MinusZero)
         IN {<<Z, Z, Z, Z>>, <<N, N, N, N>>, <<Z, N, N, Z>>,
             <<Z, Z, Value(TRUE, "fp32", <<0, 127, 0>>), Z>>,
             <<Z, Z, Z, Value(TRUE, "fp32", <<0, 0, 1>>)>>,
             <<Value(FALSE, "fp32", PlusZero), Z, Z, Z>>}
    [] ty = "fp8" ->
         {[k \in 1..4 |-> getInt8(0)],
          [k \in 1..4 |-> Value(FALSE, "i8", <<0, 128, 56, 184>>[k])],
          [k \in 1..4 |-> Value(FALSE, "i8", <<1, 255, 127, 60>>[k])]}
    [] ty = "fp16" ->
         {[k \in 1..4 |-> Value(FALSE, "fp16", <<0, 15360, 32768, 31744>>[k])]}

\* the first group of 4 entries is drawn on its own, the groups after it alike
CastInstsOf(op, ret, ct, reps) ==
  {[op_sca_ty |-> op, ret_sca_ty |-> ret, contiguous |-> ct,
    op_vals |-> [i \in 1..(ct * reps) |-> gs[IF i <= 4 THEN 1 ELSE 2][((i - 1) % 4) + 1]]] :
     gs \in CastGroups(op) \X CastGroups(op)}

\* the layout analysis gives every lane whole runs: x_idxs holds contiguous * reps
\* positions
CastInsts ==
  UNION {CastInstsOf(ty[1], ty[2], ct, reps) :
           ty \in {<<"fp32", "fp8">>, <<"fp8", "fp16">>, <<"fp8", "fp32">>, <<"fp16", "fp8">>},
           ct \in 1..MaxContig, reps \in 1..MaxCastReps}

InitFp8 ==
  /\ cast \in CastInsts
  /\ cast_vals = <<>>
  /\ cast_back = <<>>
  /\ cast_pc = "start"

IdleFp8 == cast = Idle /\ cast_vals = Idle /\ cast_back = Idle /\ cast_pc = Idle

NextFp8 ==
  \/ visit_cast_inst_fp8
  \/ convert_back

(***************************************************************************)
(* Copies to shared memory: visit_masked_load_async_inst,                  *)
(* visit_copy_to_shared_inst and visit_async_wait_inst                     *)
(***************************************************************************)
\* bounds of the copy model
MaxCpPerLane == 4
MaxOutVec == 4
MaxPerPhase == 2
MaxMaxPhase == 2
MaxWaitN == 1

CpLanes == 0..(WarpSize - 1)

\* idxs_.at(arg), as lane t of the warp holds it
cp_lane_idxs(l, t) ==
  idx_product(l,
              [k \in Dims(l.rank) |->
                 scanline_axis(l, Delinearize(l, full_thread_id(t), 0,
                                              [d \in Dims(l.rank) |-> 0]), k)],
              idx_ord(l))

\* the locals both handlers compute from the layouts and the swizzle
cp_in_vec(c) ==
  IF c.out_order = c.in_layout.order THEN c.in_layout.nts[c.in_layout.order[0]] ELSE 1
cp_min_vec(c) == Min(c.vec, cp_in_vec(c))
cp_s(c) == Max(c.vec \div cp_in_vec(c), 1)
cp_in_ld(c) == c.in_layout.shape[c.in_layout.order[0]] \div c.in_layout.mts[c.in_layout.order[0]]
cp_n_shared_1(c) == Max((c.per_phase * c.max_phase) \div c.in_layout.mts[c.in_layout.order[1]], 1)
cp_n_shared_0(c) == Max(cp_in_vec(c) \div c.vec, 1)
cp_size(c) == NumElements(c.in_layout) \div WarpSize

cp_id_0(c, id) == id % (cp_in_ld(c) \div cp_min_vec(c))
cp_id_1(c, id) == id \div (cp_in_ld(c) \div cp_min_vec(c))

\* "input ptr info": the constant offset of vector group id
cp_off(c, id) ==
  LET off_0 == (cp_id_0(c, id) \div cp_n_shared_0(c)) * cp_n_shared_0(c)
                 * c.in_layout.mts[c.in_layout.order[0]]
      off_1 == (cp_id_1(c, id) \div cp_n_shared_1(c)) * cp_n_shared_1(c)
                 * c.in_layout.mts[c.in_layout.order[1]]
  IN (off_1 * c.in_layout.shape[c.in_layout.order[0]]) + off_0

cp_key(c, id) == <<cp_id_1(c, id) % cp_n_shared_1(c), cp_id_0(c, id) % cp_n_shared_0(c)>>

\* the pointer made for a key, gep(shmems_[x], {off}): the element offset the
\* lane with index list ix computes for it
cp_ptr(c, ix, ky) ==
  LET o0 == c.in_layout.order[0]
      o1 == c.in_layout.order[1]
      idx == ix[(ky[1] * cp_in_ld(c)) + 1]
      swz_phase == (idx[o1] \div c.per_phase) % c.max_phase
      off_1 == idx[o1] * c.in_layout.shape[o0]
      off_0 == (idx[o0] + (ky[2] * c.vec)) \div cp_min_vec(c)
      off_0x == (Xor(off_0 \div cp_s(c), swz_phase) * cp_s(c)) + (off_0 % cp_s(c))
  IN (off_0x * cp_min_vec(c)) + off_1

\* the keys of the groups 0 .. n-1 in the order they are first met
RECURSIVE cp_new_keys(_, _, _)
cp_new_keys(c, ids, met) ==
  IF ids = <<>> THEN <<>>
  ELSE IF cp_key(c, Head(ids)) \in met THEN cp_new_keys(c, Tail(ids), met)
  ELSE <<[op |-> "gep", key |-> cp_key(c, Head(ids))]>>
         \o cp_new_keys(c, Tail(ids), met \cup {cp_key(c, Head(ids))})

\* builder_->CreateSelect(cond, a, b); cond is the mask entry of position i
CreateSelect(i, a, b) == [mask_at |-> i, on_true |-> a, on_false |-> b]
select_value(sel, mask_bit) == IF mask_bit THEN sel.on_true ELSE sel.on_false

\* one copy of the second loop of visit_masked_load_async_inst, for position i
cp_async_false_bug(c) == cp_in_vec(c) * c.dtsize
cp_async_false(c) == 0

cp_async(c, i) ==
  [op |-> "cp.async",
   mod |-> IF cp_in_vec(c) * c.dtsize = 16 THEN ".cg" ELSE ".ca",
   at |-> i,
   n |-> cp_in_vec(c),
   out_base |-> cp_key(c, i \div cp_min_vec(c)),
   out_off |-> cp_off(c, i \div cp_min_vec(c)) * c.dtsize,
   bytes |-> cp_in_vec(c) * c.dtsize,
   src_size |-> CreateSelect(i, cp_in_vec(c) * c.dtsize, cp_async_false(c))]

commit_group == [op |-> "cp.async.commit_group"]

cp_next_is(kind) ==
  /\ cp_pos < Len(cp.insts)
  /\ cp.insts[cp_pos + 1].kind = kind

visit_masked_load_async_inst ==
  /\ cp_next_is("masked_load_async")
  /\ LET ptrs == cp_new_keys(cp, [i \in 1..cp_size(cp) |-> (i - 1) \div cp_min_vec(cp)], {})
         copies == [j \in 1..(((cp_size(cp) + cp_in_vec(cp)) - 1) \div cp_in_vec(cp)) |->
                      cp_async(cp, (j - 1) * cp_in_vec(cp))]
     IN /\ cp_first' = IF cp.in_entry THEN cp_first ELSE cp_first \o ptrs
        /\ cp_code' = (IF cp.in_entry THEN cp_code \o ptrs ELSE cp_code)
                        \o copies \o <<commit_group>>
  /\ cp_pos' = cp_pos + 1
  /\ UNCHANGED <<cp, notCp>>

\* the store of the vector group id of visit_copy_to_shared_inst
cp_store(c, id) ==
  [op |-> "store",
   at |-> id * cp_min_vec(c),
   n |-> cp_min_vec(c),
   base |-> cp_key(c, id),
   off |-> cp_off(c, id)]

visit_copy_to_shared ==
  /\ cp_next_is("copy_to_shared")
  /\ cp_first' = cp_first
       \o cp_new_keys(cp, [g \in 1..(cp_size(cp) \div cp_min_vec(cp)) |-> g - 1], {})
  /\ cp_code' = cp_code
       \o [g \in 1..(cp_size(cp) \div cp_min_vec(cp)) |-> cp_store(cp, g - 1)]
  /\ cp_pos' = cp_pos + 1
  /\ UNCHANGED <<cp, notCp>>

wait_group(N) == [op |-> "cp.async.wait_group", N |-> N]

visit_async_wait_inst ==
  /\ cp_next_is("async_wait")
  /\ cp_code' = Append(cp_code, wait_group(cp.insts[cp_pos + 1].N))
  /\ cp_pos' = cp_pos + 1
  /\ UNCHANGED <<cp, cp_first, notCp>>

\* the element offsets of the buffer at which the instructions of kind op put
\* the element of position i, for the lane with index list ix (empty when no
\* instruction covers i)
cp_place(c, prg, op, i, ix) ==
  {IF op = "store" THEN cp_ptr(c, ix, prg[j].base) + prg[j].off + (i - prg[j].at)
   ELSE cp_ptr(c, ix, prg[j].out_base) + (prg[j].out_off \div c.dtsize) + (i - prg[j].at) :
     j \in {j \in 1..Len(prg) : /\ prg[j].op = op
                                 /\ prg[j].at <= i /\ i < prg[j].at + prg[j].n}}

AsyncWait(N) == [kind |-> "async_wait", N |-> N]
CpInst(kind) == [kind |-> kind, N |-> 0]

\* the instruction lists: a masked_load_async and a copy_to_shared of the same
\* tile with an async_wait, in three orders, and two loads each with its wait
CpPrograms ==
  UNION {{<<CpInst("masked_load_async"), CpInst("copy_to_shared"), AsyncWait(n)>>,
          <<CpInst("copy_to_shared"), AsyncWait(n), CpInst("masked_load_async")>>,
          <<AsyncWait(n), CpInst("masked_load_async"), CpInst("copy_to_shared")>>,
          <<CpInst("masked_load_async"), AsyncWait(n), CpInst("masked_load_async"),
            AsyncWait(MaxWaitN - n)>>} : n \in 0..MaxWaitN}

\* the element size and the block the builder is in come with the list
CpContexts ==
  {[insts |-> prg, dtsize |-> IF prg[Len(prg)].N = 0 THEN 4 ELSE 8,
    in_entry |-> prg[1].kind # "masked_load_async"] : prg \in CpPrograms}

CpInsts ==
  {[in_layout |-> l, out_order |-> oo, vec |-> sw[1], per_phase |-> sw[2],
    max_phase |-> sw[3], dtsize |-> cx.dtsize, in_entry |-> cx.in_entry, insts |-> cx.insts] :
     l \in ScanlineTiles(2, WarpSize, MaxCpPerLane),
     oo \in DimOrders(2),
     sw \in {v \in 1..MaxOutVec : v \in {1, 2, 4, 8}} \X (1..MaxPerPhase) \X (1..MaxMaxPhase),
     cx \in CpContexts}

InitCp ==
  /\ cp \in CpInsts
  /\ cp_pos = 0
  /\ cp_first = <<>>
  /\ cp_code = <<>>

IdleCp == cp = Idle /\ cp_pos = Idle /\ cp_first = Idle /\ cp_code = Idle

NextCp ==
  \/ visit_masked_load_async_inst
  \/ visit_copy_to_shared
  \/ visit_async_wait_inst

(***************************************************************************)
(* Scalar atomics: visit_atomic_rmw_inst (scalar branch) and               *)
(* visit_atomic_cas_inst, and the lanes of a thread-block running them     *)
(***************************************************************************)
\* bound of the atomic model: lanes of the thread-block (local ids 0 .. n-1)
MaxAtomLanes == 3

AtomLanes == 0..(MaxAtomLanes - 1)

\* the address the pointer operand holds, the content of global memory there
\* before the instruction, and what a register or a word of memory that
\* nothing wrote may hold
AtomAddr == 8192
AtomOld == 5
Unwritten == {AtomOld, 9}

\* the atomics of the model.  form: the pointer operand as in LoadInsts;
\* nbits: width of the value; msk: the mask operand of the rmw
AtomInsts ==
  [kind : {"rmw"}, form : {"value", "gep_cst", "gep_neg", "gep_var"}, nbits : {16, 32, 64},
   msk : BOOLEAN]
  \cup [kind : {"cas"}, form : {"value"}, nbits : {32}, msk : {TRUE}]

\* vals_[ptr][idx]: a GetElementPtrInst with one index or not
rmw_ptr(a) ==
  LET base == IF a.form = "gep_neg" THEN AtomAddr + 1024 ELSE AtomAddr - 1024
  IN IF a.form = "value"
     THEN [gep |-> FALSE, cst |-> FALSE, base |-> AtomAddr, index |-> 0]
     ELSE [gep |-> TRUE, cst |-> (a.form \in {"gep_cst", "gep_neg"}), base |-> base,
           index |-> ((AtomAddr - base) * 8) \div a.nbits]

\* "extract pointer offset": offset = getSExtValue()*nbits/8, in size_t
rmw_offset(p, nbits) ==
  IF p.gep /\ p.cst
  THEN [offset |-> Div64by8(Mul64(getSExtValue(p.index), nbits)), ptr |-> p.base]
  ELSE [offset |-> U64(0), ptr |-> p.base + ((p.index * nbits) \div 8)]

\* instructions of the lanes.  pred: "all", "tid0" or "msk_tid0"
ABar == [op |-> "bar"]
AFence == [op |-> "fence"]
AAtom(pred, ptr, offset) == [op |-> "atom", pred |-> pred, ptr |-> ptr, offset |-> offset]
AStore(pred) == [op |-> "st", pred |-> pred]
ALoad == [op |-> "ld"]

\* store(old, atom_ptr): a plain store, which every lane runs
rmw_store_pred == "all"

\* what the scalar branch of visit_atomic_rmw_inst emits

atomic_rmw_code(a) ==
  LET off == rmw_offset(rmw_ptr(a), a.nbits)
  IN <<AFence, ABar, AAtom("msk_tid0", off.ptr, off.offset), AStore(rmw_store_pred), ABar,
       ALoad, ABar>>

\* what visit_atomic_cas_inst emits
atomic_cas_code(a) ==
  <<ABar, AFence, ABar, AAtom("tid0", rmw_ptr(a).base, U64(0)), ABar, ABar, AStore("tid0"),
    AFence, ABar, ALoad, ABar>>

visit_atomic_rmw_inst ==
  /\ atom_pc = "start" /\ atom.kind = "rmw"
  /\ atom_code' = atomic_rmw_code(atom)
  /\ atom_pc' = "emitted"
  /\ UNCHANGED <<atom, apos, aregs, cell, aslot, atom_log, notAtom>>

visit_atomic_cas_inst ==
  /\ atom_pc = "start" /\ atom.kind = "cas"
  /\ atom_code' = atomic_cas_code(atom)
  /\ atom_pc' = "emitted"
  /\ UNCHANGED <<atom, apos, aregs, cell, aslot, atom_log, notAtom>>

\* the predicate of an instruction on lane t
holds_on(pred, t) ==
  CASE pred = "all" -> TRUE
    [] pred = "tid0" -> t = 0
    [] pred = "msk_tid0" -> atom.msk /\ t = 0

\* the values a register may give when read
reads(v) == IF v = Undef THEN Unwritten ELSE {v}

\* lane t runs its next instruction, which is not a barrier
lane_step(t) ==
  /\ atom_pc = "emitted" /\ apos[t] <= Len(atom_code)
  /\ LET i == atom_code[apos[t]]
     IN /\ i.op # "bar"
        /\ apos' = [apos EXCEPT ![t] = @ + 1]
        /\ CASE i.op = "atom" /\ holds_on(i.pred, t) ->
                  IF Add64(U64(i.ptr), i.offset) = U64(AtomAddr)
                  THEN /\ aregs' = [aregs EXCEPT ![t].old = cell]
                       /\ cell' = cell + 1
                       /\ atom_log' = [atom_log EXCEPT !.did = @ \cup {t}]
                       /\ UNCHANGED aslot
                  ELSE /\ \E v \in Unwritten : aregs' = [aregs EXCEPT ![t].old = v]
                       /\ atom_log' = [atom_log EXCEPT !.did = @ \cup {t}]
                       /\ UNCHANGED <<cell, aslot>>
             [] i.op = "st" /\ holds_on(i.pred, t) ->
                  \E v \in reads(aregs[t].old) :
                    /\ aslot' = v
                    /\ atom_log' = [atom_log EXCEPT !.writes = @ \cup {v}]
                    /\ UNCHANGED <<aregs, cell>>
             [] i.op = "ld" ->
                  \E v \in reads(aslot) :
                    /\ aregs' = [aregs EXCEPT ![t].ret = v]
                    /\ UNCHANGED <<cell, aslot, atom_log>>
             [] OTHER -> UNCHANGED <<aregs, cell, aslot, atom_log>>
  /\ UNCHANGED <<atom, atom_code, atom_pc, notAtom>>

\* every lane has arrived at the barrier: all of them pass it
barrier_release ==
  /\ atom_pc = "emitted"
  /\ \A t \in AtomLanes : apos[t] <= Len(atom_code) /\ atom_code[apos[t]].op = "bar"
  /\ apos' = [t \in AtomLanes |-> apos[t] + 1]
  /\ UNCHANGED <<atom, atom_code, atom_pc, aregs, cell, aslot, atom_log, notAtom>>

InitAtom ==
  /\ atom \in AtomInsts
  /\ atom_code = <<>> /\ atom_pc = "start"
  /\ apos = [t \in AtomLanes |-> 1]
  /\ aregs = [t \in AtomLanes |-> [old |-> Undef, ret |-> Undef]]
  /\ cell = AtomOld /\ aslot = Undef
  /\ atom_log = [did |-> {}, writes |-> {}]

IdleAtom ==
  /\ atom = Idle /\ atom_code = Idle /\ atom_pc = Idle /\ apos = Idle /\ aregs = Idle
  /\ cell = Idle /\ aslot = Idle /\ atom_log = Idle

NextAtom ==
  \/ visit_atomic_rmw_inst
  \/ visit_atomic_cas_inst
  \/ \E t \in AtomLanes : lane_step(t)
  \/ barrier_release

(***************************************************************************)
(* The cross-warp step of visit_reduce1d_inst, for every warp count: the   *)
(* values are bags of warp partials (warp -> number of times counted)      *)
(***************************************************************************)
\* a thread-block has at most 32 warps; slot w of the scratch is warp w's
XwCounts == 1..WarpSize
XwSlots == 0..(WarpSize - 1)

\* the partial of warp w, the neutral element and do_acc on bags
xw_partial(nw, w) == [v \in 0..(nw - 1) |-> IF v = w THEN 1 ELSE 0]
xw_neutral(nw) == [v \in 0..(nw - 1) |-> 0]
xw_acc(x, y) == [v \in DOMAIN x |-> x[v] + y[v]]

\* add_barrier(); store(neutral, gep(base, lane)); add_barrier()
xw_store_neutral ==
  /\ xw_pc = "start"
  /\ xw_mem' = [s \in XwSlots |-> xw_neutral(xw_nw)]
  /\ xw_pc' = "neutral"
  /\ UNCHANGED <<xw_nw, xw_ret, xw_i, notXw>>

\* store(acc, gep(base, warp)); add_barrier(): every warp writes its slot
xw_store_acc ==
  /\ xw_pc = "neutral"
  /\ xw_mem' = [s \in XwSlots |-> IF s < xw_nw THEN xw_partial(xw_nw, s) ELSE xw_mem[s]]
  /\ xw_pc' = "partials"
  /\ UNCHANGED <<xw_nw, xw_ret, xw_i, notXw>>

\* warp 0: ret = load(gep(base, thread)); i = (num_warps_+1)/2
xw_load ==
  /\ xw_pc = "partials"
  /\ xw_ret' = [t \in XwSlots |-> xw_mem[t]]
  /\ xw_i' = cross_warp_start(xw_nw)
  /\ xw_pc' = "loop"
  /\ UNCHANGED <<xw_nw, xw_mem, notXw>>

\* warp 0: current = shfl_sync(ret, i); ret = do_acc(ret, current); i >>= 1
xw_shfl ==
  /\ xw_pc = "loop" /\ xw_i > 0
  /\ xw_ret' = [t \in XwSlots |-> xw_acc(xw_ret[t], xw_ret[bfly_partner(t, xw_i)])]
  /\ xw_i' = xw_i \div 2
  /\ UNCHANGED <<xw_nw, xw_mem, xw_pc, notXw>>

\* warp 0: store(ret, gep(base, thread)); then the barrier, and ret = load(base)
xw_store_ret ==
  /\ xw_pc = "loop" /\ xw_i = 0
  /\ xw_mem' = [s \in XwSlots |-> xw_ret[s]]
  /\ xw_pc' = "done"
  /\ UNCHANGED <<xw_nw, xw_ret, xw_i, notXw>>

InitXw ==
  /\ xw_nw \in XwCounts
  /\ xw_mem = <<>> /\ xw_ret = <<>> /\ xw_i = 0
  /\ xw_pc = "start"

IdleXw == xw_nw = Idle /\ xw_mem = Idle /\ xw_ret = Idle /\ xw_i = Idle /\ xw_pc = Idle

NextXw ==
  \/ xw_store_neutral
  \/ xw_store_acc
  \/ xw_load
  \/ xw_shfl
  \/ xw_store_ret

(***************************************************************************)
(* Control flow: the target blocks of visit_function, the regions split    *)
(* off by masked stores and 1-D reductions, and the branches between them  *)
(***************************************************************************)
MaxCfgBody == 2
MaxCfgGroups == 2

CfgKinds == {"inst", "masked_store", "reduce1d"}
CfgItem(kind, dests) == [kind |-> kind, dests |-> dests]
CfgBodies ==
  UNION {[1..n -> {CfgItem(k, <<>>) : k \in CfgKinds}] : n \in 0..MaxCfgBody}

\* a function of the ir: its blocks in the order of fn->blocks(), each the list
\* of its instructions; block 1 is the entry, block 2 heads a loop that is
\* closed by its own terminator ("self") or by the terminator of block 3
CfgFunction(shape, eb, hb, lb, groups) ==
  [groups |-> groups,
   blocks |->
     IF shape = "self"
     THEN << eb \o <<CfgItem("br", <<2>>)>>,
             <<CfgItem("phi", <<1, 2>>)>> \o hb \o <<CfgItem("cond_br", <<2, 3>>)>>,
             <<CfgItem("ret", <<>>)>> >>
     ELSE << eb \o <<CfgItem("br", <<2>>)>>,
             <<CfgItem("phi", <<1, 3>>)>> \o hb \o <<CfgItem("br", <<3>>)>>,
             lb \o <<CfgItem("cond_br", <<2, 4>>)>>,
             <<CfgItem("ret", <<>>)>> >>]

CfgFunctions ==
  {CfgFunction("self", eb, hb, <<>>, g) :
     eb \in {b \in CfgBodies : Len(b) <= 1}, hb \in CfgBodies, g \in 1..MaxCfgGroups}
  \cup
  {CfgFunction("later", eb[1], hb, lb, eb[2]) :
     eb \in {b \in CfgBodies : Len(b) <= 1} \X (1..MaxCfgGroups),
     hb \in CfgBodies, lb \in CfgBodies}

\* an instruction of the target: what it is, the ir instruction (block, position,
\* vector group) it was emitted for, its condition and its successor blocks
Ins(op, src, role, cond, dests) ==
  [op |-> op, src |-> src, role |-> role, cond |-> cond, dests |-> dests]
Plain(op, src) == Ins(op, src, "src", "", <<>>)

AtEnd(bb) == [bb |-> bb, before |-> <<>>]
Before(bb, x) == [bb |-> bb, before |-> <<x>>]

Position(s, x) == CHOOSE k \in 1..Len(s) : s[k] = x

\* IRBuilder::Insert: at the end of the block, or before the instruction the
\* insertion point names
insert(bl, ipt, items) ==
  LET s == bl[ipt.bb]
      k == IF ipt.before = <<>> THEN Len(s) + 1 ELSE Position(s, ipt.before[1])
  IN [bl EXCEPT ![ipt.bb] = SubSeq(s, 1, k - 1) \o items \o SubSeq(s, k, Len(s))]

removeFromParent(bl, bb, x) ==
  [bl EXCEPT ![bb] = SelectSeq(bl[bb], LAMBDA y : y # x)]

\* llvm::SplitBlockAndInsertIfThen(cond, split_before, false): the instructions
\* from split_before on move to a new tail block, the head ends in a branch on
\* cond to a new block that only jumps to the tail
SplitBlockAndInsertIfThen(bl, bb, cond, split_before) ==
  LET s == bl[bb]
      k == Position(s, split_before)
      tail == Len(bl) + 1
      thn == Len(bl) + 2
      term == Ins("br", split_before.src, "split", "", <<tail>>)
      head == SubSeq(s, 1, k - 1)
                \o <<Ins("cond_br", split_before.src, "split", cond, <<thn, tail>>)>>
  IN [bl |-> [bl EXCEPT ![bb] = head] \o <<SubSeq(s, k, Len(s)), <<term>>>>,
      tail |-> tail, thn |-> thn, term |-> term]

\* one vector group of a masked store
masked_store_group(st, src) ==
  LET no_op == Plain("no_op", src)
      dummy == Ins("ret", src, "dummy", "", <<>>)
      b1 == insert(st.bl, st.ip, <<Plain("insert_elt", src), no_op>>)
      b2 == insert(b1, AtEnd(st.ip.bb), <<dummy>>)
      sp == SplitBlockAndInsertIfThen(b2, st.ip.bb, "msk", no_op)
      b3 == removeFromParent(sp.bl, sp.tail, dummy)
      b4 == insert(b3, Before(sp.thn, sp.term), <<Plain("store", src)>>)
  IN [bl |-> b4, ip |-> Before(sp.tail, no_op)]

RECURSIVE store_groups(_, _, _, _, _)
store_groups(st, b, i, g, n) ==
  IF g > n THEN st
  ELSE store_groups(masked_store_group(st, <<b, i, g>>), b, i, g + 1, n)

\* the cross-warp region of a 1-D reduction
reduce1d_region(st, src) ==
  LET barrier == Plain("barrier", src)
      dummy == Ins("ret", src, "dummy", "", <<>>)
      b1 == insert(st.bl, st.ip, <<Plain("partial", src), barrier>>)
      b2 == insert(b1, AtEnd(st.ip.bb), <<dummy>>)
      sp == SplitBlockAndInsertIfThen(b2, st.ip.bb, "warp0", barrier)
      b3 == removeFromParent(sp.bl, sp.tail, dummy)
      b4 == insert(b3, Before(sp.thn, sp.term), <<Plain("combine", src)>>)
      b5 == insert(b4, AtEnd(sp.tail), <<Plain("load", src)>>)
  IN [bl |-> b5, ip |-> AtEnd(sp.tail)]

cfg_item == cfg_fn.blocks[cfg_pc.b][cfg_pc.i]
cfg_src == <<cfg_pc.b, cfg_pc.i, 0>>
cfg_at(kind) == cfg_pc.phase = "inst" /\ cfg_item.kind = kind
cfg_advance ==
  cfg_pc' = IF cfg_pc.i < Len(cfg_fn.blocks[cfg_pc.b])
            THEN [cfg_pc EXCEPT !.i = @ + 1]
            ELSE [cfg_pc EXCEPT !.phase = "end"]

\* visit_function: one target block per block of the ir
create_blocks ==
  /\ cfg_pc.phase = "start"
  /\ cfg_blocks' = [b \in 1..Len(cfg_fn.blocks) |-> <<>>]
  /\ cfg_bbs' = [b \in 1..Len(cfg_fn.blocks) |-> b]
  /\ cfg_ip' = AtEnd(1)
  /\ cfg_pc' = [phase |-> "block", b |-> 1, i |-> 1]
  /\ UNCHANGED <<cfg_fn, cfg_phis, notCfg>>

\* visit_basic_block, up to its loop
enter_basic_block ==
  /\ cfg_pc.phase = "block"
  /\ cfg_ip' = AtEnd(cfg_bbs[cfg_pc.b])
  /\ cfg_pc' = [cfg_pc EXCEPT !.phase = "inst", !.i = 1]
  /\ UNCHANGED <<cfg_fn, cfg_blocks, cfg_bbs, cfg_phis, notCfg>>

cfg_emit(items) ==
  /\ cfg_blocks' = insert(cfg_blocks, cfg_ip, items)
  /\ cfg_advance
  /\ UNCHANGED <<cfg_fn, cfg_bbs, cfg_ip, cfg_phis, notCfg>>

visit_phi == cfg_at("phi") /\ cfg_emit(<<Plain("phi", cfg_src)>>)

visit_instruction == cfg_at("inst") /\ cfg_emit(<<Plain("inst", cfg_src)>>)

visit_store_inst ==
  /\ cfg_at("masked_store")
  /\ LET st == store_groups([bl |-> cfg_blocks, ip |-> cfg_ip],
                            cfg_pc.b, cfg_pc.i, 1, cfg_fn.groups)
     IN cfg_blocks' = st.bl /\ cfg_ip' = st.ip
  /\ cfg_advance
  /\ UNCHANGED <<cfg_fn, cfg_bbs, cfg_phis, notCfg>>

visit_reduce1d_split ==
  /\ cfg_at("reduce1d")
  /\ LET st == reduce1d_region([bl |-> cfg_blocks, ip |-> cfg_ip], cfg_src)
     IN cfg_blocks' = st.bl /\ cfg_ip' = st.ip
  /\ cfg_advance
  /\ UNCHANGED <<cfg_fn, cfg_bbs, cfg_phis, notCfg>>

branch_dests(bbs, dests) == [n \in 1..Len(dests) |-> bbs[dests[n]]]

visit_cond_branch_inst ==
  /\ cfg_at("cond_br")
  /\ cfg_emit(<<Ins("cond_br", cfg_src, "src", "value",
                    branch_dests(cfg_bbs, cfg_item.dests))>>)

visit_uncond_branch_inst ==
  /\ cfg_at("br")
  /\ cfg_emit(<<Ins("br", cfg_src, "src", "", branch_dests(cfg_bbs, cfg_item.dests))>>)

visit_return_inst == cfg_at("ret") /\ cfg_emit(<<Ins("ret", cfg_src, "src", "", <<>>)>>)

\* visit_basic_block, after its loop
leave_basic_block ==
  /\ cfg_pc.phase = "end"
  /\ cfg_bbs' = [cfg_bbs EXCEPT ![cfg_pc.b] = cfg_ip.bb]
  /\ cfg_pc' = IF cfg_pc.b < Len(cfg_fn.blocks)
               THEN [phase |-> "block", b |-> cfg_pc.b + 1, i |-> 1]
               ELSE [cfg_pc EXCEPT !.phase = "finalize"]
  /\ UNCHANGED <<cfg_fn, cfg_blocks, cfg_ip, cfg_phis, notCfg>>

\* finalize_phi_node over the phis of the function
finalize_phis ==
  /\ cfg_pc.phase = "finalize"
  /\ cfg_phis' = {[phi |-> <<b, i, 0>>, inc |-> cfg_bbs[cfg_fn.blocks[b][i].dests[n]]] :
                    <<b, i, n>> \in {t \in (1..Len(cfg_fn.blocks)) \X (1..(MaxCfgBody + 2)) \X (1..2) :
                                       /\ t[2] <= Len(cfg_fn.blocks[t[1]])
                                       /\ cfg_fn.blocks[t[1]][t[2]].kind = "phi"}}
  /\ cfg_pc' = [cfg_pc EXCEPT !.phase = "done"]
  /\ UNCHANGED <<cfg_fn, cfg_blocks, cfg_bbs, cfg_ip, notCfg>>

\* a lane: what its masks and its warp are
CfgLanes(srcs) == [msk : [srcs -> BOOLEAN], warp0 : BOOLEAN]
lane_takes(lane, x) == IF x.cond = "msk" THEN lane.msk[x.src] ELSE lane.warp0

RECURSIVE cfg_size(_)
cfg_size(bl) == IF bl = <<>> THEN 0 ELSE Len(Head(bl)) + 1 + cfg_size(Tail(bl))

\* what a lane runs from position k of target block bb up to the terminator
\* of the ir block: a block runs up to its first terminator
RECURSIVE cfg_run(_, _, _, _, _)
cfg_run(bl, bb, k, lane, fuel) ==
  IF fuel = 0 \/ k > Len(bl[bb]) THEN <<>>
  ELSE LET x == bl[bb][k] IN
    IF x.op \in {"br", "cond_br", "ret"}
    THEN IF x.role = "split"
         THEN cfg_run(bl, IF x.op = "br" \/ lane_takes(lane, x)
                          THEN x.dests[1] ELSE x.dests[2], 1, lane, fuel - 1)
         ELSE <<[bb |-> bb, ins |-> x]>>
    ELSE <<[bb |-> bb, ins |-> x]>> \o cfg_run(bl, bb, k + 1, lane, fuel - 1)

InitCfg ==
  /\ cfg_fn \in CfgFunctions
  /\ cfg_blocks = <<>> /\ cfg_bbs = <<>> /\ cfg_ip = <<>> /\ cfg_phis = {}
  /\ cfg_pc = [phase |-> "start", b |-> 0, i |-> 0]

IdleCfg ==
  /\ cfg_fn = Idle /\ cfg_blocks = Idle /\ cfg_bbs = Idle
  /\ cfg_ip = Idle /\ cfg_pc = Idle /\ cfg_phis = Idle

NextCfg ==
  \/ create_blocks
  \/ enter_basic_block
  \/ visit_phi
  \/ visit_instruction
  \/ visit_store_inst
  \/ visit_reduce1d_split
  \/ visit_cond_branch_inst
  \/ visit_uncond_branch_inst
  \/ visit_return_inst
  \/ leave_basic_block
  \/ finalize_phis

(***************************************************************************)
(* Specifications                                                          *)
(***************************************************************************)
StartLoop == InitLoop /\ IdleIdx /\ IdleLd /\ IdleExec /\ IdleTrav /\ IdleFp8 /\ IdleCp /\ IdleAtom /\ IdleXw /\ IdleCfg
SpecLoop == StartLoop /\ [][NextLoop]_vars

StartIdx == InitIdx /\ IdleLoop /\ IdleLd /\ IdleExec /\ IdleTrav /\ IdleFp8 /\ IdleCp /\ IdleAtom /\ IdleXw /\ IdleCfg
SpecIdx == StartIdx /\ [][NextIdx]_vars

StartLd == InitLd /\ IdleLoop /\ IdleIdx /\ IdleExec /\ IdleTrav /\ IdleFp8 /\ IdleCp /\ IdleAtom /\ IdleXw /\ IdleCfg
SpecLd == StartLd /\ [][NextLd]_vars

StartRed == InitRed /\ IdleLoop /\ IdleIdx /\ IdleLd /\ IdleTrav /\ IdleFp8 /\ IdleCp /\ IdleAtom /\ IdleXw /\ IdleCfg
SpecRed == StartRed /\ [][NextRed]_vars

StartCvt == InitCvt /\ IdleLoop /\ IdleIdx /\ IdleLd /\ IdleTrav /\ IdleFp8 /\ IdleCp /\ IdleAtom /\ IdleXw /\ IdleCfg
SpecCvt == StartCvt /\ [][NextCvt]_vars

StartTrav == InitTrav /\ IdleLoop /\ IdleIdx /\ IdleLd /\ IdleExec /\ IdleFp8 /\ IdleCp /\ IdleAtom /\ IdleXw /\ IdleCfg
SpecTrav == StartTrav /\ [][NextTrav]_vars

StartFp8 == InitFp8 /\ IdleLoop /\ IdleIdx /\ IdleLd /\ IdleExec /\ IdleTrav /\ IdleCp /\ IdleAtom /\ IdleXw /\ IdleCfg
SpecFp8 == StartFp8 /\ [][NextFp8]_vars

StartCp == InitCp /\ IdleLoop /\ IdleIdx /\ IdleLd /\ IdleExec /\ IdleTrav /\ IdleFp8 /\ IdleAtom /\ IdleXw /\ IdleCfg
SpecCp == StartCp /\ [][NextCp]_vars

StartAtom == InitAtom /\ IdleLoop /\ IdleIdx /\ IdleLd /\ IdleExec /\ IdleTrav /\ IdleFp8 /\ IdleCp /\ IdleXw /\ IdleCfg
SpecAtom == StartAtom /\ [][NextAtom]_vars

StartXw == InitXw /\ IdleLoop /\ IdleIdx /\ IdleLd /\ IdleExec /\ IdleTrav /\ IdleFp8 /\ IdleCp /\ IdleAtom /\ IdleCfg
SpecXw == StartXw /\ [][NextXw]_vars

StartCfg == InitCfg /\ IdleLoop /\ IdleIdx /\ IdleLd /\ IdleExec /\ IdleTrav /\ IdleFp8 /\ IdleCp /\ IdleAtom /\ IdleXw
SpecCfg == StartCfg /\ [][NextCfg]_vars

(***************************************************************************)
(* Claims                                                                  *)
(***************************************************************************)

\* C7: for an N-stage buffer the write index starts at stages-1, stays in
\* [0, stages-1] in every iteration, advances by (idx == stages-1) ? 0 : idx+1
\* once per iteration, and so equals stages-1 exactly in the iterations whose
\* number is a multiple of `stages` (first again after `stages` advances).
C7_WriteIdxCycle ==
  (lpc = "running" /\ shared.kind = "N") =>
     /\ run.write_smem_idx \in 0..(shared.num_stages - 1)
     /\ run.write_smem_idx = (shared.num_stages - 1 + run.iter) % shared.num_stages
     /\ (run.write_smem_idx = shared.num_stages - 1) <=> (run.iter % shared.num_stages = 0)

C7_Witness ==
  /\ lpc = "running" /\ shared.kind = "N" /\ shared.num_stages = 4
  /\ run.iter = 4 /\ run.write_smem_idx = 3

\* C8: for a double buffer the offset phi has, in iteration k, the value
\* (-1)^k * size / (2 * element bytes).
C8_OffsetParity ==
  (lpc = "running" /\ shared.kind = "double") =>
     run.shared_off = (IF run.iter % 2 = 0 THEN 1 ELSE -1) * (shared.size \div (2 * shared.num_bytes))

C8_Witness ==
  /\ lpc = "running" /\ shared.kind = "double" /\ shared.latch_first
  /\ run.iter = 3 /\ run.shared_off = -2

\* C1: the index tuples init_idx materializes for one lane are pairwise
\* distinct, their number is the element count divided by the lane count, and
\* over all lanes every coordinate of the shape is produced exactly once.
C1_Covering ==
  ipc = "done" =>
    LET all == UNION {{idxs[t][i] : i \in 1..Len(idxs[t])} : t \in Lanes}
        total == WarpSize * num_warps
    IN /\ \A t \in Lanes :
            /\ Len(idxs[t]) * total = NumElements(layout)
            /\ Cardinality({idxs[t][i] : i \in 1..Len(idxs[t])}) = Len(idxs[t])
       /\ Cardinality(all) = NumElements(layout)
       /\ \A c \in all : \A d \in Dims(layout.rank) : c[d] \in 0..(layout.shape[d] - 1)

C1_Witness ==
  /\ ipc = "done" /\ layout.rank = 3
  /\ layout.order = [d \in Dims(3) |-> (d + 1) % 3]
  /\ \E d \in Dims(3) : layout.shape[d] > shape_per_cta(layout, d) /\ layout.nts[d] > 1
  /\ Len(idxs[WarpSize - 1]) = MaxPerLane

\* C6: a masked load whose mask is false everywhere yields the fallback value
\* at every index, and one whose mask is true everywhere yields the memory
\* content at each index's address, for vector widths 1, 2 and 4 alike.
C6_MaskedLoad ==
  ld_pc = "done" =>
    /\ (ld.maskk = "false" /\ ld.okind # "undef") =>
          \A j \in DOMAIN ld_res : ld_res[j] = ld_other(ld, j)
    /\ (ld.maskk = "true") =>
          \A j \in DOMAIN ld_res : ld_res[j] = Mem(ld_addr(ld, j))
    /\ DOMAIN ld_res = 0..(ld_count(ld) - 1)

C6_Witness ==
  /\ ld_pc = "done" /\ ld.maskk = "false" /\ ld.okind = "value"
  /\ ld_vec(ld) = 4 /\ ld.dtsize = 4 /\ Len(ld_asm) = 2 /\ ld.strided
  /\ ld_res[7] = ld_other(ld, 7)

\* the reduction of the operand along the axis at coordinate c, in closed form
red_expected(k, c) ==
  LET l == k.layout
      n == l.shape[k.axis]
      stride == ProdUpTo(l.shape, k.axis)
      first == red_input(k, [c EXCEPT ![k.axis] = 0])
  IN CASE k.pattern = "ones" /\ k.op = "add" -> n
       [] k.pattern = "ones" /\ k.op = "max" -> 1
       [] k.pattern = "iota" /\ k.op = "add" -> (n * first) + (stride * ((n * (n - 1)) \div 2))
       [] k.pattern = "iota" /\ k.op = "max" -> first + (stride * (n - 1))

\* C4: the 1-D add-reduction of N lanes that each hold 1 gives N on every
\* lane, for 1, 2, 4 and 8 warps and every interleaving of the warps.
C4_Reduce1d ==
  (Done /\ kern.kind = "reduce" /\ kern.layout.rank = 1 /\ kern.op = "add") =>
    \A t \in KLanes(kern) : \A n \in DOMAIN outs :
      /\ reg_of(t, outs[n]) = red_expected(kern, [d \in Dims(1) |-> 0])
      /\ (kern.pattern = "ones" /\ NumElements(kern.layout) = WarpSize * kern.num_warps)
           => reg_of(t, outs[n]) = WarpSize * kern.num_warps

C4_Witness ==
  /\ Done /\ kern.kind = "reduce" /\ kern.layout.rank = 1 /\ kern.op = "add"
  /\ kern.pattern = "ones" /\ kern.num_warps = 8 /\ NumElements(kern.layout) = 256
  /\ reg_of(255, outs[1]) = 256

\* C5: the add-reduction of an (8,8) operand of ones along axis 1 gives 8 at
\* each of the 8 coordinates of the result, for every layout of the operand.
C5_ReduceNd ==
  (Done /\ kern.kind = "reduce" /\ kern.layout.rank = 2 /\ kern.op = "add") =>
    \A ax \in {all_axes(kern.layout, KLanes(kern))} :
      LET l == kern.layout
          rest == 1 - kern.axis
          at(t, n) == coord_at(l, ax[t], outs[n][2])
      IN /\ \A t \in KLanes(kern) : \A n \in DOMAIN outs :
              /\ reg_of(t, outs[n]) = red_expected(kern, at(t, n))
              /\ (kern.pattern = "ones" /\ kern.axis = 1 /\ l.shape = [d \in Dims(2) |-> 8])
                   => reg_of(t, outs[n]) = 8
         /\ {at(t, n)[rest] : t \in KLanes(kern), n \in DOMAIN outs} = 0..(l.shape[rest] - 1)

C5_Witness ==
  /\ Done /\ kern.kind = "reduce" /\ kern.op = "add" /\ kern.pattern = "ones"
  /\ kern.layout.rank = 2 /\ kern.layout.shape = [d \in Dims(2) |-> 8] /\ kern.axis = 1
  /\ kern.num_warps = 1 /\ kern.layout.mts[1] = 4
  /\ reg_of(31, outs[1]) = 8

\* C10: in the streams of both reductions no lane loads a slot that another
\* lane stores, or stores a slot that another lane loads, between two barriers.
C10_BarrierSeparated ==
  (epc = "run" /\ kern.kind = "reduce") =>
    \A a \in ldset : \A b \in stset : a[1] = b[1] => a[2] = b[2]

C10_Witness ==
  /\ epc = "run" /\ kern.kind = "reduce" /\ kern.layout.rank = 2 /\ kern.num_warps = 2
  /\ waiting = {0}
  /\ \E a \in ldset :
       /\ a[2] \in WLanes(0)
       /\ smem[a[1]] # Undef
       /\ \E n \in 1..(wpc[0] - 1) :
            prog[n].op = "st" /\ \E u \in WLanes(1) : prog[n].addr[u] = a[1]

\* C9: the stream of a layout conversion is, per replica, a barrier, the
\* stores of the source layout, a barrier, the loads of the destination
\* layout; every lane ends with the element of each coordinate it owns in the
\* destination layout, and no slot is loaded by one lane and stored by another
\* between two barriers.
C9_ConvertPhases ==
  (epc = "run" /\ kern.kind = "cvt") =>
    LET ns == Cardinality({r \in StreamRegs(prog) : r[1] = "in"})
        nl == Len(outs)
        reps == Cardinality({n \in 1..Len(prog) : prog[n].op = "bar"}) \div 2
        q(n) == (n - 1) % (2 + (ns \div reps) + (nl \div reps))
    IN /\ Len(prog) = (2 * reps) + ns + nl
       /\ \A n \in 1..Len(prog) :
            prog[n].op = IF q(n) = 0 \/ q(n) = 1 + (ns \div reps) THEN "bar"
                         ELSE IF q(n) <= ns \div reps THEN "st" ELSE "ld"
       /\ \A a \in ldset : \A b \in stset : a[1] # b[1]
       /\ Done =>
            \A ax \in {all_axes(kern.out, KLanes(kern))} :
              \A t \in KLanes(kern) : \A n \in DOMAIN outs :
                reg_of(t, outs[n]) = red_input(kern, coord_at(kern.out, ax[t], outs[n][2]))

C9_Witness ==
  /\ Done /\ kern.kind = "cvt" /\ kern.num_warps = 2
  /\ Cardinality({n \in 1..Len(prog) : prog[n].op = "bar"}) = 4
  /\ kern.layout.order # kern.out.order
  /\ \E n \in 1..Len(prog) : \E m \in 1..(n - 1) : \E t \in WLanes(0) : \E u \in WLanes(1) :
       /\ prog[n].op = "ld" /\ prog[m].op = "st"
       /\ prog[n].addr[t] = prog[m].addr[u]
       /\ reg_of(t, prog[n].dst) = reg_of(u, prog[m].src[2])

(***************************************************************************)
(* C2. Whatever the order of the visit_value calls (from the instruction   *)
(* lists and from the operand loops), the handler of a value is never      *)
(* invoked twice: it has been invoked once exactly for the users whose     *)
(* first visit has returned, every instruction of the function when the    *)
(* traversal ends; and a visit_value of a value already seen returns       *)
(* leaving the value table, the index table, the insertion point and the   *)
(* emitted code as they are.                                               *)
(***************************************************************************)
C2_VisitOnce ==
  [][ /\ \A v \in fn'.values : calls'[v] <= 1
      /\ tpc' \in {"blocks", "done"} =>
           \A v \in fn'.values :
             calls'[v] =
               IF /\ v \in seen_' /\ is_user(fn', v)
                  /\ \A i \in 1..Len(stack') : stack'[i].v = v => stack'[i].k = 0
               THEN 1 ELSE 0
      /\ tpc' = "done" =>
           \A b \in Range(fn'.blocks) : \A v \in Range(fn'.insts[b]) : calls'[v] = 1
      /\ (tpc = "blocks" /\ stack # <<>> /\ Top.k = 0 /\ Top.v \in seen_) =>
           /\ UNCHANGED <<vals_, idxs_, ip, code, phi_incs, seen_, shmems_, shoffs_, calls>>
           /\ stack' = Pop
    ]_vars

\* an operand already lowered, with code emitted for it, is visited again from
\* the operand loop of one of its users
C2_Witness ==
  /\ tpc = "blocks" /\ Len(stack) >= 2 /\ Top.k = 0
  /\ Top.v \in seen_ /\ calls[Top.v] = 1
  /\ is_instruction(fn, Top.v)
  /\ \E b \in DOMAIN code : \E i \in 1..Len(code[b]) : code[b][i].v = Top.v

(***************************************************************************)
(* C3. An entry of the value table, once there, stays as it is; when the   *)
(* handler of an instruction other than a phi is about to run, each of its *)
(* operands that is not in shared memory has an entry (not null) for each  *)
(* of its index tuples; the entries of a lowered phi are phis, one per     *)
(* index tuple, without incoming values until finalize_function, and       *)
(* after it with one incoming value (not null) per predecessor.            *)
(***************************************************************************)
C3_Populated ==
  /\ [][ \A v \in DOMAIN vals_ : \A k \in DOMAIN vals_[v] :
           k \in DOMAIN vals_'[v] /\ vals_'[v][k] = vals_[v][k] ]_vars
  /\ [] ( (tpc = "blocks" /\ stack # <<>> /\ Top.k > Len(fn.ops[Top.v])
             /\ Top.k >= 1 /\ is_instruction(fn, Top.v) /\ ~is_phi(fn, Top.v)) =>
            \A o \in Range(fn.ops[Top.v]) :
              fn.to_shared[o] \/
                /\ o \in DOMAIN idxs_
                /\ \A k \in Range(idxs_[o]) :
                     k \in DOMAIN vals_[o] /\ vals_[o][k] # NullValue )
  /\ [] ( tpc \in {"blocks", "done"} =>
            \A x \in fn.values :
              (is_phi(fn, x) /\ ~fn.to_shared[x] /\ calls[x] = 1) =>
                \A k \in Range(idxs_[x]) :
                  /\ k \in DOMAIN vals_[x] /\ vals_[x][k] = LValue("phi", x, k)
                  /\ IF tpc = "blocks" THEN phi_incs[x][k] = <<>>
                     ELSE /\ Len(phi_incs[x][k]) = Len(fn.incoming)
                          /\ \A n \in 1..Len(fn.incoming) :
                               /\ phi_incs[x][k][n].bb = bbs_[fn.incoming[n]]
                               /\ phi_incs[x][k][n].val = vals_[fn.ops[x][n]][k]
                               /\ phi_incs[x][k][n].val # NullValue )

(***************************************************************************)
(* C18 as stated: for an N-stage buffer the read index and the write       *)
(* index start on the loop-entry edge at two distinct stages, read = 2 and *)
(* write = stages-1, both in [0, stages-1], and each is advanced on the    *)
(* latch edge by next = (idx == stages-1) ? 0 : idx+1.                     *)
(***************************************************************************)
C18_DistinctSeeds ==
  /\ [] ( (lpc \in {"finalized", "running"} /\ shared.kind = "N") =>
            /\ sphi.read_smem_idx[Header] = Const(2)
            /\ sphi.write_smem_idx[Header] = Const(shared.num_stages - 1)
            /\ sphi.read_smem_idx[Header] # sphi.write_smem_idx[Header]
            /\ 2 \in 0..(shared.num_stages - 1)
            /\ shared.num_stages - 1 \in 0..(shared.num_stages - 1) )
  /\ [][ (lpc = "running" /\ shared.kind = "N" /\ run'.iter = run.iter + 1) =>
           /\ run'.read_smem_idx =
                IF run.read_smem_idx = shared.num_stages - 1 THEN 0
                ELSE run.read_smem_idx + 1
           /\ run'.write_smem_idx =
                IF run.write_smem_idx = shared.num_stages - 1 THEN 0
                ELSE run.write_smem_idx + 1 ]_vars

(***************************************************************************)
(* C18, amended: the read index starts at 2 and the write index at         *)
(* stages-1; the write seed is always a stage of the buffer, the read seed *)
(* is one exactly when the buffer has at least 3 stages, and the two seeds *)
(* differ exactly when the stage count is not 3; each index is advanced on *)
(* the latch edge by next = (idx == stages-1) ? 0 : idx+1.                 *)
(***************************************************************************)
C18_Seeds ==
  /\ [] ( (lpc \in {"finalized", "running"} /\ shared.kind = "N") =>
            /\ sphi.read_smem_idx[Header] = Const(2)
            /\ sphi.write_smem_idx[Header] = Const(shared.num_stages - 1)
            /\ shared.num_stages - 1 \in 0..(shared.num_stages - 1)
            /\ (2 \in 0..(shared.num_stages - 1)) <=> (shared.num_stages >= 3)
            /\ (sphi.read_smem_idx[Header] # sphi.write_smem_idx[Header])
                 <=> (shared.num_stages # 3) )
  /\ [] ( (lpc = "running" /\ shared.kind = "N" /\ run.iter = 0) =>
            run.read_smem_idx = 2 /\ run.write_smem_idx = shared.num_stages - 1 )
  /\ [][ (lpc = "running" /\ shared.kind = "N" /\ run'.iter = run.iter + 1) =>
           /\ run'.read_smem_idx =
                IF run.read_smem_idx = shared.num_stages - 1 THEN 0
                ELSE run.read_smem_idx + 1
           /\ run'.write_smem_idx =
                IF run.write_smem_idx = shared.num_stages - 1 THEN 0
                ELSE run.write_smem_idx + 1 ]_vars

\* three stages: both indices start at stage 2 and have wrapped to stage 0
C18_Witness ==
  /\ lpc = "running" /\ shared.kind = "N" /\ shared.num_stages = 3
  /\ sphi.read_smem_idx[Header] = sphi.write_smem_idx[Header]
  /\ run.iter = 1 /\ run.read_smem_idx = 0 /\ run.write_smem_idx = 0

(***************************************************************************)
(* C19 as stated: the current and the next pointer of an N-stage buffer    *)
(* are base + write_idx * per_stage_size when the loop is entered and      *)
(* base + read_idx * per_stage_size when the latch edge is taken, with     *)
(* write_idx and read_idx the values of the two index phis.                *)
(***************************************************************************)
C19_PtrEdges ==
  [][ /\ (lpc = "finalized" /\ lpc' = "running" /\ shared.kind = "N") =>
           LET p == shared.offset
                      + run'.write_smem_idx * shared.per_stage_elements * shared.num_bytes
           IN run'.shared_ptr = p /\ run'.shared_next_ptr = p
      /\ (lpc = "running" /\ shared.kind = "N" /\ run'.iter = run.iter + 1) =>
           LET p == shared.offset
                      + run'.read_smem_idx * shared.per_stage_elements * shared.num_bytes
           IN run'.shared_ptr = p /\ run'.shared_next_ptr = p ]_vars

(***************************************************************************)
(* C19, amended: when the loop is entered the current pointer is base and  *)
(* the next pointer is base + per_stage_size; when the latch edge is taken *)
(* the current pointer becomes the next pointer of the iteration that ends *)
(* and the next pointer becomes base + read_idx * per_stage_size, read_idx *)
(* being the read index of the iteration that ends.  The write index       *)
(* enters neither pointer phi.                                             *)
(***************************************************************************)
C19_PtrRotation ==
  [][ /\ (lpc = "finalized" /\ lpc' = "running" /\ shared.kind = "N") =>
           /\ run'.shared_ptr = shared.offset
           /\ run'.shared_next_ptr =
                shared.offset + shared.per_stage_elements * shared.num_bytes
      /\ (lpc = "running" /\ shared.kind = "N" /\ run'.iter = run.iter + 1) =>
           /\ run'.shared_ptr = run.shared_next_ptr
           /\ run'.shared_next_ptr =
                shared.offset
                  + run.read_smem_idx * shared.per_stage_elements * shared.num_bytes ]_vars

\* four stages, third iteration: the current pointer is at slot 2, the next at slot 3
C19_Witness ==
  /\ lpc = "running" /\ shared.kind = "N" /\ shared.num_stages = 4
  /\ shared.offset = 64 /\ run.iter = 2
  /\ run.shared_ptr = 96 /\ run.shared_next_ptr = 112 /\ run.read_smem_idx = 0

(***************************************************************************)
(* C20: for an N-stage buffer of at least 3 stages, in iteration k the     *)
(* current pointer is base + (k mod stages) * per_stage_elements and the   *)
(* next pointer is base + ((k+1) mod stages) * per_stage_elements          *)
(* (elements, scaled by the element size): each is the start of a slot.    *)
(***************************************************************************)
C20_PtrSlots ==
  (lpc = "running" /\ shared.kind = "N" /\ shared.num_stages >= 3) =>
     LET slot(j) == shared.offset + j * shared.per_stage_elements * shared.num_bytes
     IN /\ run.shared_ptr = slot(run.iter % shared.num_stages)
        /\ run.shared_next_ptr = slot((run.iter + 1) % shared.num_stages)
        /\ \E j \in 0..(shared.num_stages - 1) : run.shared_ptr = slot(j)
        /\ \E j \in 0..(shared.num_stages - 1) : run.shared_next_ptr = slot(j)

\* three stages, sixth iteration: the next pointer has wrapped to slot 0 twice
C20_Witness ==
  /\ lpc = "running" /\ shared.kind = "N" /\ shared.num_stages = 3
  /\ run.iter = 5 /\ run.shared_ptr = shared.offset + 32
  /\ run.shared_next_ptr = shared.offset

no_lowering_rule(f, v) ==
  f.kind[v] \in {"trans_inst", "copy_from_shared_inst"} \/ ~f.known_op[v]

C14_CastWritesOrThrows ==
  [][ (/\ tpc = "blocks" /\ stack # <<>> /\ Top.k >= 1
       /\ Top.k > Len(fn.ops[Top.v]) /\ fn.kind[Top.v] = "cast_inst") =>
        \/ tpc' = "throw"
        \/ /\ tpc' = "blocks"
           /\ \A k \in Range(idxs_'[Top.v]) : k \in DOMAIN vals_'[Top.v] ]_vars

(***************************************************************************)
(* C15: finalize_function runs only when every basic block has been        *)
(* visited, and nothing runs after it; until it runs no phi of the shared  *)
(* buffer has an incoming edge; when it has run, each of them (read index, *)
(* write index, current and next pointer of an N-stage buffer; pointer and *)
(* offset of a double buffer) has exactly two incoming edges, one from the *)
(* block bbs_ gives for the loop-entry predecessor and one from the block  *)
(* bbs_ gives for the latch.                                               *)
(***************************************************************************)
C15_FinalizeOnce ==
  /\ [][ /\ (shinc' # shinc \/ tpc' = "done") =>
             /\ tpc = "blocks" /\ tpc' = "done"
             /\ bcur > Len(fn.blocks) /\ stack = <<>>
             /\ \A b \in Range(fn.blocks) : \A v \in Range(fn.insts[b]) : v \in seen_
         /\ tpc # "done" ]_vars
  /\ [] ( tpc # "done" => shinc = <<>> )
  /\ [] ( (tpc = "done" /\ fn.n_buffer) =>
            \A name \in NStagePhis :
              LET es == {i \in 1..Len(shinc) : shinc[i].phi = name}
              IN /\ Cardinality(es) = 2
                 /\ \E i \in es : shinc[i].bb = bbs_[fn.incoming[1]]
                 /\ \E i \in es : shinc[i].bb = bbs_[fn.incoming[2]] )
  /\ [] ( (tpc = "done" /\ fn.double_buffer) =>
            /\ Len(shinc) = 2
            /\ \E i \in 1..2 : shinc[i].bb = bbs_[fn.incoming[1]] /\ shinc[i].off = "half"
            /\ \E i \in 1..2 : shinc[i].bb = bbs_[fn.incoming[2]] /\ shinc[i].off = "neg" )
  /\ [] ( tpc = "done" => bbs_[fn.incoming[1]] # bbs_[fn.incoming[2]] )

\* an N-stage buffer finalized: the block of the latch was split twice
C15_Witness ==
  /\ tpc = "done" /\ fn.n_buffer /\ Len(shinc) = 8
  /\ bbs_["loop"] = "ret_write"
  /\ shinc[2] = PhiEdge("read_smem_idx", "_ret", "ret_write")

(***************************************************************************)
(* C12. When the run length of the result layout is a multiple of 4, a     *)
(* cast from 32-bit to 8-bit floats writes the 8-bit zero for every group  *)
(* of 4 constant zeros up to the first group it rejects, and converting    *)
(* what it wrote back with fp8x4_to_fp32x4 gives the 32-bit word +0.0 for  *)
(* each element; when the run length is not a multiple of 4, a cast to or  *)
(* from the 8-bit format throws with no entry of the value table written.  *)
(***************************************************************************)
C12_Fp8ZeroRoundTrip ==
  /\ (cast_pc # "start" /\ cast.contiguous % 4 # 0) =>
        cast_pc = "throw" /\ cast_vals = <<>>
  /\ (cast_pc \in {"done", "throw", "back"} /\ cast.contiguous % 4 = 0
        /\ cast.op_sca_ty = "fp32" /\ cast.ret_sca_ty = "fp8") =>
        \A g \in 0..((Len(cast.op_vals) \div 4) - 1) :
          (\A i \in 1..(4 * (g + 1)) : is_ConstantFP_zero(cast.op_vals[i])) =>
            /\ Len(cast_vals) >= 4 * (g + 1)
            /\ \A k \in 1..4 : cast_vals[(4 * g) + k] = Value(TRUE, "i8", 0)
  /\ cast_pc = "back" =>
        /\ Len(cast_back) = Len(cast_vals)
        /\ \A i \in 1..Len(cast_back) :
             /\ cast.op_vals[i].bits \in {PlusZero, MinusZero}
             /\ cast_back[i].ty = "fp32" /\ cast_back[i].bits = PlusZero

\* two groups of constant zeros, -0.0 among them, went to 8 bits and back
C12_Witness ==
  /\ cast_pc = "back" /\ cast.contiguous % 4 = 0 /\ Len(cast_back) >= 8
  /\ \E i \in 1..Len(cast_back) : cast.op_vals[i].bits = MinusZero
  /\ \A i \in 1..Len(cast_back) : cast_back[i].bits = PlusZero

(***************************************************************************)
(* C11. The instructions the lowering of a masked asynchronous load adds   *)
(* to the current block are its pointer computations, then one copy per    *)
(* run of in_vec positions, whose transfer-size operand selects, on the    *)
(* mask entry of the first position of the run, in_vec x dtsize bytes or   *)
(* 0, then one commit-group marker, the last instruction added; it adds no *)
(* wait-group and no barrier.  A wait-group is added only by the lowering  *)
(* of an async_wait: one, with the N of that instruction.                  *)
(***************************************************************************)
C11_AsyncCopyStream ==
  [][ cp_pos' = cp_pos + 1 =>
        LET new == SubSeq(cp_code', Len(cp_code) + 1, Len(cp_code'))
            added == SubSeq(cp_first', Len(cp_first) + 1, Len(cp_first')) \o new
            inst == cp.insts[cp_pos + 1]
            width == cp_in_vec(cp) * cp.dtsize
            copies == {j \in 1..Len(new) : new[j].op = "cp.async"}
        IN /\ inst.kind = "masked_load_async" =>
                /\ Cardinality(copies) = cp_size(cp) \div cp_in_vec(cp)
                /\ copies # {}
                /\ \A j \in copies :
                     /\ new[j].bytes = width
                     /\ new[j].src_size.mask_at = new[j].at
                     /\ select_value(new[j].src_size, TRUE) = width
                     /\ select_value(new[j].src_size, FALSE) = 0
                /\ new[Len(new)].op = "cp.async.commit_group"
                /\ Cardinality({j \in 1..Len(new) : new[j].op = "cp.async.commit_group"}) = 1
                /\ \A j \in 1..Len(added) :
                     added[j].op \in {"gep", "cp.async", "cp.async.commit_group"}
           /\ SelectSeq(added, LAMBDA e : e.op = "cp.async.wait_group") =
                IF inst.kind = "async_wait"
                THEN <<[op |-> "cp.async.wait_group", N |-> inst.N]>> ELSE <<>>
    ]_vars

\* a load lowered to two copies or more and its commit, and a second load after
\* a wait-group 0, followed by a wait-group with N = 1
C11_Witness ==
  /\ cp_pos = 4
  /\ \E j \in 3..Len(cp_code) :
       /\ cp_code[j].op = "cp.async.commit_group"
       /\ cp_code[j - 1].op = "cp.async" /\ cp_code[j - 2].op = "cp.async"
       /\ j < Len(cp_code) /\ cp_code[j + 1] = [op |-> "cp.async.wait_group", N |-> 0]
  /\ cp_code[Len(cp_code)] = [op |-> "cp.async.wait_group", N |-> 1]

(***************************************************************************)
(* C17. Once a masked_load_async and a copy_to_shared of the same tile,    *)
(* with the same layouts and swizzle, are lowered, every position i of     *)
(* every lane is put at the same element offset of the buffer by the       *)
(* stores of the one and by the copies of the other.                       *)
(***************************************************************************)
C17_SameOffsets ==
  (\E j \in 1..Len(cp_code) : cp_code[j].op = "store") =>
    \A t \in CpLanes : \A ix \in {cp_lane_idxs(cp.in_layout, t)} :
      \A i \in 0..(cp_size(cp) - 1) :
        (cp_place(cp, cp_code, "store", i, ix) # {}
           /\ cp_place(cp, cp_code, "cp.async", i, ix) # {}) =>
          cp_place(cp, cp_code, "store", i, ix) = cp_place(cp, cp_code, "cp.async", i, ix)

\* the same, for the inputs where the run of the input layout is no longer than
\* the swizzle vector or the buffer has one phase
C17_SameOffsetsNarrow ==
  (cp_in_vec(cp) <= cp.vec \/ cp.max_phase = 1) => C17_SameOffsets

(***************************************************************************)
(* C21: for an N-stage buffer of at least 3 stages, in every iteration the *)
(* pointer handed to the latch value, base + write_idx x                   *)
(* per_stage_elements, is the start of a slot of the buffer, and that slot *)
(* is neither the slot of the current pointer nor the slot of the next     *)
(* pointer of the iteration.                                               *)
(***************************************************************************)
C21_WriteSlotApart ==
  (lpc = "running" /\ shared.kind = "N" /\ shared.num_stages >= 3) =>
     LET slot_of(ptr) == {j \in 0..(shared.num_stages - 1) :
                            ptr = shared.offset + j * shared.per_stage_elements * shared.num_bytes}
     IN /\ slot_of(run.latch_ptr) = {run.write_smem_idx}
        /\ slot_of(run.shared_ptr) # {} /\ slot_of(run.shared_next_ptr) # {}
        /\ slot_of(run.latch_ptr) \cap slot_of(run.shared_ptr) = {}
        /\ slot_of(run.latch_ptr) \cap slot_of(run.shared_next_ptr) = {}

\* three stages, iteration 4: reading slot 1, prefetched slot 2, writing slot 0
C21_Witness ==
  /\ lpc = "running" /\ shared.kind = "N" /\ shared.num_stages = 3 /\ run.iter = 4
  /\ run.shared_ptr = shared.offset + 16 /\ run.shared_next_ptr = shared.offset + 32
  /\ run.latch_ptr = shared.offset

\* C26: in visit_load_inst, for elements of 8, 16, 32 and 64 bits and every
\* vector width vec = min(run length, alignment), the word width is
\* min(max(32, element bits), element bits x vec), the word count is
\* max(1, element bits x vec / word width), word count x word width is
\* element bits x vec, and each of the vec result elements of a group is
\* extracted from one of the loaded words, at a position inside that word.
C26_WordSplit ==
  ld_pc # "start" =>
    LET nbits == ld.dtsize * 8
        vec == Min(ld.nts, ld.aln)
    IN /\ \A g \in DOMAIN ld_asm :
            /\ ld_asm[g].width = Min(Max(32, nbits), nbits * vec)
            /\ ld_asm[g].n_words = Max(1, (nbits * vec) \div ld_asm[g].width)
            /\ ld_asm[g].n_words * ld_asm[g].width = nbits * vec
       /\ DOMAIN ld_vals = 0..((ld.nts * ld.runs) - 1)
       /\ \A j \in DOMAIN ld_vals :
            /\ ld_vals[j][1] = (j \div vec) + 1
            /\ ld_vals[j][2] \in 0..(ld_asm[ld_vals[j][1]].n_words - 1)
            /\ (ld_vals[j][3] + 1) * nbits <= ld_asm[ld_vals[j][1]].width
            /\ (ld_vals[j][2] * ld_asm[ld_vals[j][1]].width) + (ld_vals[j][3] * nbits)
                  = (j % vec) * nbits

C26_Witness ==
  /\ ld_pc = "emitted" /\ ld.dtsize = 8 /\ ld.nts = 8 /\ ld.aln = 4 /\ ld.runs = 2
  /\ Len(ld_asm) = 4 /\ ld_asm[1].width = 64 /\ ld_asm[1].n_words = 4
  /\ ld_vals[7] = <<2, 3, 0>>

\* C27: in the fragment of visit_load_inst the placeholders are bound left to
\* right to the result words, the predicate, the pointer and the fallback
\* operands: the placeholder written into the move of a word whose fallback is
\* passed as an operand designates the argument that holds that word's
\* fallback, whatever the mix of constant and non-constant fallbacks, and there
\* are as many constraint entries as results plus arguments.
C27_PlaceholderBinding ==
  ld_pc # "start" =>
    \A g \in DOMAIN ld_asm :
      LET f == ld_asm[g]
          args == <<f.pred, f.ptr>> \o f.others
      IN /\ Len(f.cstrt) = f.n_words + Len(args)
         /\ \A ii \in DOMAIN f.movs :
              ~f.movs[ii].imm =>
                 /\ (f.movs[ii].opnd - f.n_words) + 1 \in 3..Len(args)
                 /\ args[(f.movs[ii].opnd - f.n_words) + 1] = f.movs[ii].val

\* C28 as the specification states it: a zero constant fallback is written as
\* an immediate, every other fallback is passed as an extra operand, and the
\* predicated move that substitutes the fallback stands before the memory
\* access in the fragment.
C28_FallbackMoveFirst ==
  ld_pc # "start" =>
    \A g \in DOMAIN ld_asm :
      LET f == ld_asm[g]
      IN /\ \A ii \in DOMAIN f.movs :
              /\ f.movs[ii].imm <=> (\A s \in DOMAIN f.movs[ii].val : f.movs[ii].val[s] = 0)
              /\ ~f.movs[ii].imm => \E k \in DOMAIN f.others : f.others[k] = f.movs[ii].val
         /\ Len(f.others) = Cardinality({ii \in DOMAIN f.movs : ~f.movs[ii].imm})
         /\ \A a, b \in DOMAIN f.text : (f.text[a] = "mov" /\ f.text[b] = "ld") => a < b

\* C28, amended: a zero constant fallback is written as an immediate, every
\* other fallback is passed as an extra operand, and the predicated moves that
\* substitute the fallback stand after the memory access in the fragment, one
\* move per word.
C28_FallbackMoveLast ==
  ld_pc # "start" =>
    \A g \in DOMAIN ld_asm :
      LET f == ld_asm[g]
      IN /\ \A ii \in DOMAIN f.movs :
              /\ f.movs[ii].imm <=> (\A s \in DOMAIN f.movs[ii].val : f.movs[ii].val[s] = 0)
              /\ ~f.movs[ii].imm => \E k \in DOMAIN f.others : f.others[k] = f.movs[ii].val
         /\ Len(f.others) = Cardinality({ii \in DOMAIN f.movs : ~f.movs[ii].imm})
         /\ f.text[1] = "ld"
         /\ \A a \in DOMAIN f.text : a > 1 => f.text[a] = "mov"
         /\ Len(f.text) = 1 + Len(f.movs)
         /\ (ld.maskk # "none" /\ ld.okind # "undef") => Len(f.movs) = f.n_words

C28_Witness ==
  /\ ld_pc = "emitted" /\ ld.maskk = "mixed" /\ ld.okind = "zero_last"
  /\ ld.dtsize = 2 /\ ld_vec(ld) = 4
  /\ ld_asm[1].text = <<"ld", "mov", "mov">>
  /\ ~ld_asm[1].movs[1].imm /\ ld_asm[1].movs[2].imm
  /\ ld_asm[1].others = <<<<500, 501>>>>

\* C24: in the scalar atomic read-modify-write at most one lane, the one with
\* local id 0, and only when the mask is true, performs the atomic; under
\* every interleaving of the lanes every lane ends with the old value; and the
\* shared slot of the broadcast is written with that value only.
C24_ScalarAtomic ==
  (atom_pc = "emitted" /\ atom.kind = "rmw") =>
    /\ atom_log.did \subseteq {0}
    /\ atom_log.did # {} => atom.msk
    /\ atom.msk => atom_log.writes \subseteq {AtomOld}
    /\ (atom.msk /\ \A t \in AtomLanes : apos[t] > Len(atom_code)) =>
          \A t \in AtomLanes : aregs[t].ret = AtomOld

\* C29: when the lowering of a load or of an atomic read-modify-write folds a
\* pointer-add with a constant index into the immediate offset, the base
\* pointer plus the immediate, in 64-bit arithmetic, is the address of the
\* original pointer, also for a negative index; with an index that is not a
\* constant the immediate is 0 and the pointer is the original one.
C29_FoldedAddress ==
  /\ (atom_pc = "emitted" /\ atom.kind = "rmw") =>
        \A k \in DOMAIN atom_code :
          atom_code[k].op = "atom" =>
            /\ Add64(U64(atom_code[k].ptr), atom_code[k].offset) = U64(AtomAddr)
            /\ atom.form \in {"value", "gep_var"} =>
                  atom_code[k].offset = U64(0) /\ atom_code[k].ptr = AtomAddr
  /\ ld_pc \in {"emitted", "done"} =>
        \A g \in DOMAIN ld_asm :
          /\ Add64(U64(ld_asm[g].ptr), ld_asm[g].in_off) = U64(ld_addr(ld, (g - 1) * ld_vec(ld)))
          /\ ld.form \in {"value", "gep_var"} =>
                ld_asm[g].in_off = U64(0) /\ ld_asm[g].ptr = ld_addr(ld, (g - 1) * ld_vec(ld))

\* where the stores of visit_copy_to_shared_inst put the tile: the pairs
\* <<index of the element, element offset in the buffer>>, over all lanes
cp_stored ==
  UNION {LET ix == cp_lane_idxs(cp.in_layout, t)
         IN UNION {{<<ix[i + 1], off>> : off \in cp_place(cp, cp_code, "store", i, ix)} :
                     i \in 0..(cp_size(cp) - 1)} : t \in CpLanes}

\* C30: the swizzled offset of visit_copy_to_shared_inst is a permutation
\* within each row: every element is stored inside the row of the buffer that
\* its row index designates, and two different elements of the tile are never
\* stored to the same offset, for every vector width, per_phase and max_phase.
C30_SwizzlePermutes ==
  (\E j \in 1..Len(cp_code) : cp_code[j].op = "store") =>
    \A st \in {cp_stored} :
      LET o0 == cp.in_layout.order[0]
          o1 == cp.in_layout.order[1]
      IN /\ \A e \in st : e[2] \div cp.in_layout.shape[o0] = e[1][o1]
         /\ \A e \in st : e[2] >= 0
         /\ \A e, f \in st : e[2] = f[2] => e[1] = f[1]
         /\ Cardinality({e[1] : e \in st}) = NumElements(cp.in_layout)

\* C25: for every warp count from 1 to 32, powers of two or not, the
\* cross-warp step of the 1-D reduction leaves in shared slot 0 the combination
\* of the partials of all warps, each counted exactly once.
C25_CrossWarp ==
  xw_pc = "done" => xw_mem[0] = [v \in 0..(xw_nw - 1) |-> 1]

cfg_visited(b) ==
  /\ b <= Len(cfg_fn.blocks)
  /\ \/ cfg_pc.phase \in {"finalize", "done"}
     \/ cfg_pc.phase \in {"block", "inst", "end"} /\ b < cfg_pc.b
cfg_store_srcs(b) ==
  {t \in {b} \X (1..Len(cfg_fn.blocks[b])) \X (1..cfg_fn.groups) :
     cfg_fn.blocks[b][t[2]].kind = "masked_store"}
cfg_emitted(b) ==
  {[bb |-> bb, ins |-> cfg_blocks[bb][k]] :
     <<bb, k>> \in {t \in (DOMAIN cfg_blocks) \X (1..cfg_size(cfg_blocks)) :
                     t[2] <= Len(cfg_blocks[t[1]]) /\ cfg_blocks[t[1]][t[2]].src[1] = b}}
cfg_terminator(b) == <<b, Len(cfg_fn.blocks[b]), 0>>

\* for every lane, whatever its masks: it runs the store of a group exactly when
\* the mask of the group holds, it runs everything else emitted for the block,
\* and it ends at the terminator, in the block bbs_ names
C22_Region(b) ==
  \A lane \in CfgLanes(cfg_store_srcs(b)) :
    LET tr == cfg_run(cfg_blocks, b, 1, lane, cfg_size(cfg_blocks))
    IN /\ \A s \in cfg_store_srcs(b) :
            Cardinality({k \in 1..Len(tr) : tr[k].ins = Plain("store", s)})
              = IF lane.msk[s] THEN 1 ELSE 0
       /\ \A e \in cfg_emitted(b) :
            e.ins.role = "src" /\ e.ins.op \notin {"store", "combine", "no_op"}
              => e \in Range(tr)
       /\ tr # <<>>
       /\ tr[Len(tr)].ins.src = cfg_terminator(b)
       /\ tr[Len(tr)].bb = cfg_bbs[b]

\* the block an incoming edge of a phi names ends in a branch to the block of the phi
C22_PhiEdges ==
  \A e \in cfg_phis :
    \E k \in 1..Len(cfg_blocks[e.inc]) :
      LET x == cfg_blocks[e.inc][k]
      IN /\ x.role = "src"
         /\ \E n \in 1..Len(x.dests) :
              \E j \in 1..Len(cfg_blocks[x.dests[n]]) :
                cfg_blocks[x.dests[n]][j] = Plain("phi", e.phi)

C22_AllRegions == \A b \in 1..4 : cfg_visited(b) => C22_Region(b)

\* C22: a masked store becomes a conditional region: a lane runs the store of a
\* vector group exactly when the mask of the group holds, everything emitted
\* later for the block is run by every lane, bbs_ of the block names the target
\* block of the terminator once visit_basic_block has returned, and every
\* incoming edge finalization adds to a phi comes from a predecessor of its block.
C22_MaskedStore == C22_AllRegions /\ C22_PhiEdges

\* C23: every branch of visit_cond_branch_inst and visit_uncond_branch_inst goes
\* to the first target block of its destination, the one visit_function made.
C23_BranchTargets ==
  \A bb \in DOMAIN cfg_blocks :
    \A k \in 1..Len(cfg_blocks[bb]) :
      LET x == cfg_blocks[bb][k]
      IN x.role = "src" /\ x.op \in {"br", "cond_br"}
           => x.dests = cfg_fn.blocks[x.src[1]][x.src[2]].dests
====
